---- MODULE Spec2Model ----
(***************************************************************************)
(* State-machine model of arrow/io/file.cc: the OS file handle (OSFile),   *)
(* the ReadableFile / FileOutputStream wrappers built on it, and the       *)
(* memory-mapped file (MemoryMappedFile::MemoryMap); and of                 *)
(* arrow/io/compressed.cc: CompressedOutputStream and                      *)
(* CompressedInputStream over a streaming codec.                           *)
(*                                                                         *)
(* Bytes are modelled as strings so that file bytes, the zero byte and     *)
(* uninitialized memory are pairwise distinct values.                      *)
(***************************************************************************)
EXTENDS Integers, Sequences, FiniteSets, TLC

\* ------------------------------------------------------------------ bounds
\* Longest initial file, in bytes.
MaxFile == 1
\* Largest byte count / length argument passed to an operation.
MaxN == 2
\* Largest position passed to Seek / ReadAt / WriteAt.
MaxPos == 1
\* Largest file length the model lets a write produce.
MaxDisk == 2
\* Largest length of a mapped file: initial, created or resized to.
MaxMap == 1
\* Region objects that can exist at a time.
MaxRegions == 2
\* Exported slices that callers hold at a time.
MaxSlices == 1

\* Plaintext bytes written through compressed streams, over all frames.
MaxPlain == 2
\* Compressed frames (output streams) written to one raw stream.
MaxFrames == 2
\* Largest byte count passed to a compressed stream's Read.
MaxRead == 3
\* The chunk of compressed bytes buffered on output (compressed.cc:193),
\* scaled down from 64 KB.
kChunkSize == 2
\* The chunk of compressed bytes read from the raw stream on input
\* (kChunkSize of CompressedInputStream::Impl, compressed.cc:416), scaled
\* down from 64 KB.
kInputChunkSize == 4
\* The first size of the decompressed buffer (compressed.cc:418), scaled
\* down from 1 MB.
kDecompressSize == 1

\* Threads that call one object concurrently.
MaxThreads == 2
\* Calls the threads start on the object, all threads together.
MaxCalls == 3

ZeroByte == "00"
Uninit == "??"

VARIABLES
  \* ---- OSFile members (file.cc:211-223)
  fd_, mode_, is_open_, size_, need_seeking_,
  \* ---- operating system: the file's bytes, the descriptor's offset, the
  \* descriptor the OS handed out and how often close() was called on it
  disk, fd_offset, os_fd_open, os_close_calls,
  \* ---- life cycle of the wrapper object
  phase,
  \* ---- observation of the last call: its name, status and results
  last, out,
  \* ---- history. Of an OS handle: has a ReadAt been issued since the last
  \* successful Seek. Of a memory map: was it opened on the "whole" file or
  \* on a "partial" range (a non-zero offset, or a length below the file size;
  \* an empty file is not mapped at Open and its offset and length are ignored)
  hist,
  \* ---- MemoryMap members (file.cc:588-597): region_ is 0 for a null pointer,
  \* otherwise the id of a Region object
  region_, file_size_, position_, offset_, map_len_,
  \* ---- the Region objects alive, and the buffers exported by Slice that
  \* callers still hold, each given by the Region it keeps alive
  regions, slices,
  \* ---- the process's address space: the extents that are mapped, each named
  \* by the Region object that holds its address, and whether a munmap was
  \* ever issued for an extent that is not mapped
  vm,
  \* ---- observation: the last call changed the mapping's sizes, position,
  \* region or bytes
  touched,
  \* ---- CompressedOutputStream::Impl members (compressed.cc:195-204) with
  \* the state of its compressor, and CompressedInputStream::Impl members
  \* (compressed.cc:420-434) with the state of its decompressor
  co, ci,
  \* ---- the raw stream under the compressed streams: the bytes it holds,
  \* whether it accepts writes, how often it was closed and aborted
  raw,
  \* ---- history of the compressed streams: the plaintexts of the frames
  \* completed by a successful Close, the plaintext the open output stream has
  \* accepted, the bytes the input stream's reads have returned, whether a
  \* call on an output stream failed or a stream was aborted, and how the
  \* calls on the input stream went: "ok", or what went wrong first, the raw
  \* stream or a closed stream ("env") or anything else ("err")
  cs,
  \* ---- observation of the last call on a compressed stream
  clast,
  \* ---- threads calling one object concurrently: where each thread is in
  \* its call (with the call's arguments and locals), the owner of each mutex
  \* (0 when free), and the object's members they share
  th, mx, sh

osVars == <<fd_, mode_, is_open_, size_, need_seeking_, disk, fd_offset,
            os_fd_open, os_close_calls, phase, last, out, hist>>

osVarsButLast == <<fd_, mode_, is_open_, size_, need_seeking_, disk, fd_offset,
                   os_fd_open, os_close_calls, phase, hist>>

mmVars == <<region_, file_size_, position_, offset_, map_len_, regions, slices, vm>>

csVars == <<co, ci, raw, cs, clast>>

thVars == <<th, mx, sh>>

vars == <<osVars, mmVars, touched, csVars, thVars>>

\* ------------------------------------------------------------------ helpers
Min(a, b) == IF a < b THEN a ELSE b
Max(a, b) == IF a > b THEN a ELSE b

\* The files and payloads of the model: prefixes of "abab...", so that every
\* byte differs from its neighbours and a read at a wrong offset shows.
Pattern(n) == [i \in 1..n |-> IF i % 2 = 1 THEN "a" ELSE "b"]
Payload(n) == [i \in 1..n |-> IF i % 2 = 1 THEN "b" ELSE "a"]

Zeros(n) == [i \in 1..n |-> ZeroByte]

IsInvalid(st) == st \in {"Invalid:closed", "Invalid:needseek", "Invalid:position",
                         "Invalid:pastend", "Invalid:maplength"}
IsIOError(st) == st \in {"IOError:os", "IOError:length", "IOError:readonly",
                         "IOError:partial", "IOError:readers", "IOError:write"}

NoBuffer == [size |-> 0, capacity |-> 0, data |-> <<>>, kind |-> "none",
             region |-> 0, offset |-> 0]

\* The bytes a copying read stored through its out pointer.
Copied(bytes) == [size |-> Len(bytes), capacity |-> Len(bytes), data |-> bytes,
                  kind |-> "copy", region |-> 0, offset |-> 0]

NoCall == [op |-> "none", st |-> "OK", os |-> "none", n |-> 0, pos |-> 0,
           pre_open |-> FALSE, pre_need |-> FALSE, pre_hist |-> "fresh"]

\* The record of a call: what was called, what it returned, the OS call it
\* issued on the descriptor ("none", or how that call ended: "ok", "failed"),
\* and the state it was called in.
OsCall(issued, ok) == IF ~issued THEN "none" ELSE IF ok THEN "ok" ELSE "failed"

Call(op, st, os, n, pos) ==
  [op |-> op, st |-> st, os |-> os, n |-> n, pos |-> pos,
   pre_open |-> is_open_, pre_need |-> need_seeking_, pre_hist |-> hist]

\* ------------------------------------------------------------------ OS layer
\* The descriptor is usable for an OS call.
FdValid == fd_ # -1 /\ os_fd_open

\* read(2) on the descriptor: the bytes from `pos`, at most n of them.
FileBytesAt(pos, n) ==
  IF n <= 0 \/ pos >= Len(disk) THEN <<>>
  ELSE SubSeq(disk, pos + 1, Min(pos + n, Len(disk)))

\* write(2) of `data` at `pos`: overwrites, extends, zero-fills a hole.
DiskAfterWrite(pos, data) ==
  LET newlen == Max(Len(disk), pos + Len(data))
  IN [i \in 1..newlen |->
        IF i > pos /\ i <= pos + Len(data) THEN data[i - pos]
        ELSE IF i <= Len(disk) THEN disk[i] ELSE ZeroByte]

\* ------------------------------------------------------------------ Buffer
\* A slot of the region table that holds no Region object.
FreeRegion == [state |-> "free", size |-> 0, off |-> 0]

RoundUpToMultipleOf64(n) == ((n + 63) \div 64) * 64

\* AllocateResizableBuffer(pool, nbytes): nbytes of uninitialized memory, the
\* padding up to the capacity zeroed.
AllocateResizableBuffer(nbytes) ==
  [size |-> nbytes, capacity |-> RoundUpToMultipleOf64(nbytes),
   data |-> [i \in 1..RoundUpToMultipleOf64(nbytes) |->
               IF i <= nbytes THEN Uninit ELSE ZeroByte],
   kind |-> "pool", region |-> 0, offset |-> 0]

\* The read stores its bytes at the start of the buffer's memory.
BufferFill(buf, bytes) ==
  [buf EXCEPT !.data = [i \in 1..buf.capacity |->
                          IF i <= Len(bytes) THEN bytes[i] ELSE buf.data[i]]]

\* ResizableBuffer::Resize(new_size) shrinking: the memory keeps its contents.
BufferResize(buf, new_size) ==
  [size |-> new_size, capacity |-> RoundUpToMultipleOf64(new_size),
   data |-> SubSeq(buf.data, 1, RoundUpToMultipleOf64(new_size)),
   kind |-> buf.kind, region |-> 0, offset |-> 0]

\* Buffer::ZeroPadding(): zeroes [size, capacity).
ZeroPadding(buf) ==
  [buf EXCEPT !.data = [i \in 1..buf.capacity |->
                          IF i > buf.size THEN ZeroByte ELSE buf.data[i]]]

\* ------------------------------------------------------------------ OSFile
CheckClosed == IF ~is_open_ THEN "Invalid:closed" ELSE "OK"

CheckPositioned == IF need_seeking_ THEN "Invalid:needseek" ELSE "OK"

\* History of the handle's positioning, kept for the claims: "unseeked" once
\* a ReadAt was issued on the open handle, "unseeked_failedseek" when only
\* failed Seeks followed it, "reseeked" after a successful Seek.
HistAfterReadAt == IF is_open_ THEN "unseeked" ELSE hist

HistAfterSeek(ok) ==
  IF ok THEN (IF hist = "fresh" THEN "fresh" ELSE "reseeked")
  ELSE (IF hist \in {"unseeked", "unseeked_failedseek"} THEN "unseeked_failedseek"
        ELSE hist)

\* OSFile::OpenReadable(path): open, then stat; is_open_ is set last.
OpenReadable(open_ok, size_ok) ==
  /\ phase = "new"
  /\ phase' = "used"
  /\ fd_' = IF open_ok THEN 3 ELSE -1
  /\ os_fd_open' = open_ok
  /\ size_' = IF open_ok /\ size_ok THEN Len(disk) ELSE size_
  /\ is_open_' = (open_ok /\ size_ok)
  /\ mode_' = IF open_ok /\ size_ok THEN "READ" ELSE mode_
  /\ fd_offset' = 0
  /\ last' = Call("OpenReadable", IF open_ok /\ size_ok THEN "OK" ELSE "IOError:os",
                  OsCall(TRUE, open_ok /\ size_ok), 0, 0)
  /\ out' = NoBuffer
  /\ UNCHANGED <<need_seeking_, disk, os_close_calls, hist>>

\* OSFile::OpenWritable(path, truncate, append, write_only): is_open_ and
\* mode_ are set right after the open; the size query follows unless truncate.
OpenWritable(truncate, append, write_only, open_ok, size_ok) ==
  /\ phase = "new"
  /\ phase' = "used"
  /\ fd_' = IF open_ok THEN 3 ELSE -1
  /\ os_fd_open' = open_ok
  /\ is_open_' = open_ok
  /\ mode_' = IF open_ok THEN (IF write_only THEN "WRITE" ELSE "READWRITE") ELSE mode_
  /\ disk' = IF open_ok /\ truncate THEN <<>> ELSE disk
  /\ fd_offset' = IF open_ok /\ append THEN Len(disk') ELSE 0
  /\ size_' = IF ~open_ok THEN size_
              ELSE IF truncate THEN 0
              ELSE IF size_ok THEN Len(disk) ELSE size_
  /\ last' = Call("OpenWritable",
                  IF open_ok /\ (truncate \/ size_ok) THEN "OK" ELSE "IOError:os",
                  OsCall(TRUE, open_ok /\ (truncate \/ size_ok)), 0, 0)
  /\ out' = NoBuffer
  /\ UNCHANGED <<need_seeking_, os_close_calls, hist>>

\* FileOutputStreamImpl::Open(path, append)
FileOutputStream_Open(append, open_ok, size_ok) ==
  OpenWritable(~append, append, TRUE, open_ok, size_ok)

\* Mutation: the handle is marked closed only once the OS close succeeded.
OSFile_Close_MarkOnSuccess(close_ok) ==
  /\ is_open_' = (is_open_ /\ ~close_ok)
  /\ fd_' = IF is_open_ /\ close_ok THEN -1 ELSE fd_
  /\ os_close_calls' = IF is_open_ THEN os_close_calls + 1 ELSE os_close_calls
  /\ os_fd_open' = IF is_open_ THEN FALSE ELSE os_fd_open

\* OSFile::Close: marks the handle closed before the OS close is attempted.
OSFile_Close(close_ok) ==
  /\ is_open_' = FALSE
  /\ fd_' = IF is_open_ THEN -1 ELSE fd_
  /\ os_close_calls' = IF is_open_ THEN os_close_calls + 1 ELSE os_close_calls
  /\ os_fd_open' = IF is_open_ THEN FALSE ELSE os_fd_open

CloseStatus(close_ok) == IF is_open_ /\ ~close_ok THEN "IOError:os" ELSE "OK"

Close(close_ok) ==
  /\ phase \in {"new", "used"}
  /\ OSFile_Close(close_ok)
  /\ last' = Call("Close", CloseStatus(close_ok), OsCall(is_open_, close_ok), 0, 0)
  /\ out' = NoBuffer
  /\ UNCHANGED <<mode_, size_, need_seeking_, disk, fd_offset, phase, hist>>

\* internal::CloseFromDestructor, called by ~ReadableFile / ~FileOutputStream:
\* a failing close is logged in release builds (NDEBUG) and fatal in debug
\* builds; the build flavour is an input of the model.
Destructor(close_ok, ndebug) ==
  /\ phase \in {"new", "used"}
  /\ OSFile_Close(close_ok)
  /\ phase' = IF CloseStatus(close_ok) # "OK" /\ ~ndebug THEN "aborted" ELSE "destroyed"
  /\ last' = Call("Destructor", CloseStatus(close_ok), OsCall(is_open_, close_ok), 0, 0)
  /\ out' = NoBuffer
  /\ UNCHANGED <<mode_, size_, need_seeking_, disk, fd_offset, hist>>

\* The outcome of OSFile::Read(nbytes): status, bytes read, OS call issued.
ReadResult(nbytes, os_ok) ==
  IF CheckClosed # "OK" THEN [st |-> CheckClosed, bytes |-> <<>>, os |-> "none"]
  ELSE IF CheckPositioned # "OK" THEN [st |-> CheckPositioned, bytes |-> <<>>, os |-> "none"]
  ELSE IF os_ok /\ FdValid /\ mode_ # "WRITE"
       THEN [st |-> "OK", bytes |-> FileBytesAt(fd_offset, nbytes), os |-> "ok"]
       ELSE [st |-> "IOError:os", bytes |-> <<>>, os |-> "failed"]

\* OSFile::Read(nbytes, &bytes_read, out)
Read(nbytes, os_ok) ==
  /\ phase \in {"new", "used"}
  /\ LET r == ReadResult(nbytes, os_ok)
     IN /\ fd_offset' = fd_offset + Len(r.bytes)
        /\ last' = Call("Read", r.st, r.os, Len(r.bytes), fd_offset)
        /\ out' = Copied(r.bytes)
  /\ UNCHANGED <<fd_, mode_, is_open_, size_, need_seeking_, disk, os_fd_open,
                 os_close_calls, phase, hist>>

\* Mutation: the buffer is not shrunk to the bytes read.
ReadBufferOut_NoShrink(nbytes, bytes) ==
  BufferFill(AllocateResizableBuffer(nbytes), bytes)

\* The buffer ReadBuffer / ReadBufferAt hand back after a read of bytes_read
\* bytes into a buffer allocated for nbytes.
ReadBufferOut(nbytes, bytes) ==
  LET buffer == BufferFill(AllocateResizableBuffer(nbytes), bytes)
  IN IF Len(bytes) < nbytes THEN ZeroPadding(BufferResize(buffer, Len(bytes)))
     ELSE buffer

\* ReadableFileImpl::ReadBuffer(nbytes, &out)
ReadBuffer(nbytes, os_ok) ==
  /\ phase \in {"new", "used"}
  /\ nbytes >= 0
  /\ LET r == ReadResult(nbytes, os_ok)
     IN /\ fd_offset' = fd_offset + Len(r.bytes)
        /\ last' = Call("ReadBuffer", r.st, r.os, nbytes, fd_offset)
        /\ out' = IF r.st = "OK" THEN ReadBufferOut(nbytes, r.bytes) ELSE NoBuffer
  /\ UNCHANGED <<fd_, mode_, is_open_, size_, need_seeking_, disk, os_fd_open,
                 os_close_calls, phase, hist>>

\* The flag ReadAt leaves behind: the file position is undefined from now on.
NeedSeekingAfterReadAt == TRUE

\* The outcome of OSFile::ReadAt(position, nbytes).
ReadAtResult(position, nbytes, os_ok) ==
  IF CheckClosed # "OK" THEN [st |-> CheckClosed, bytes |-> <<>>, os |-> "none"]
  ELSE IF os_ok /\ FdValid /\ mode_ # "WRITE" /\ position >= 0
       THEN [st |-> "OK", bytes |-> FileBytesAt(position, nbytes), os |-> "ok"]
       ELSE [st |-> "IOError:os", bytes |-> <<>>, os |-> "failed"]

\* Mutation: the flag is raised before the closed check.
ReadAtEffect_FlagFirst(position, r, moves) ==
  /\ need_seeking_' = NeedSeekingAfterReadAt
  /\ hist' = HistAfterReadAt
  /\ fd_offset' = IF r.st = "OK" /\ moves THEN position + Len(r.bytes) ELSE fd_offset

\* What a positioned read does to the state: the flag is raised once the
\* closed check has passed; the descriptor's offset is left either untouched
\* (pread) or behind the bytes read (seek + read emulation).
ReadAtEffect(position, r, moves) ==
  /\ need_seeking_' = IF CheckClosed = "OK" THEN NeedSeekingAfterReadAt ELSE need_seeking_
  /\ hist' = HistAfterReadAt
  /\ fd_offset' = IF r.st = "OK" /\ moves THEN position + Len(r.bytes) ELSE fd_offset

\* OSFile::ReadAt(position, nbytes, &bytes_read, out)
ReadAt(position, nbytes, os_ok, moves) ==
  /\ phase \in {"new", "used"}
  /\ LET r == ReadAtResult(position, nbytes, os_ok)
     IN /\ ReadAtEffect(position, r, moves)
        /\ last' = Call("ReadAt", r.st, r.os, Len(r.bytes), position)
        /\ out' = Copied(r.bytes)
  /\ UNCHANGED <<fd_, mode_, is_open_, size_, disk, os_fd_open, os_close_calls,
                 phase>>

\* ReadableFileImpl::ReadBufferAt(position, nbytes, &out)
ReadBufferAt(position, nbytes, os_ok, moves) ==
  /\ phase \in {"new", "used"}
  /\ nbytes >= 0
  /\ LET r == ReadAtResult(position, nbytes, os_ok)
     IN /\ ReadAtEffect(position, r, moves)
        /\ last' = Call("ReadBufferAt", r.st, r.os, nbytes, position)
        /\ out' = IF r.st = "OK" THEN ReadBufferOut(nbytes, r.bytes) ELSE NoBuffer
  /\ UNCHANGED <<fd_, mode_, is_open_, size_, disk, os_fd_open, os_close_calls,
                 phase>>

\* Mutation: the flag is cleared whether or not the lseek succeeded.
NeedSeekingAfterSeek_ClearAlways(st_ok) == FALSE

\* The flag after Seek's lseek returned st.
NeedSeekingAfterSeek(st_ok) == IF st_ok THEN FALSE ELSE need_seeking_

\* OSFile::Seek(pos)
Seek(pos, os_ok) ==
  /\ phase \in {"new", "used"}
  /\ LET st == IF CheckClosed # "OK" THEN CheckClosed
               ELSE IF pos < 0 THEN "Invalid:position"
               ELSE IF os_ok /\ FdValid THEN "OK" ELSE "IOError:os"
         called == CheckClosed = "OK" /\ pos >= 0
     IN /\ need_seeking_' = IF called THEN NeedSeekingAfterSeek(st = "OK")
                            ELSE need_seeking_
        /\ hist' = HistAfterSeek(st = "OK")
        /\ fd_offset' = IF st = "OK" THEN pos ELSE fd_offset
        /\ last' = Call("Seek", st, OsCall(called, st = "OK"), 0, pos)
  /\ out' = NoBuffer
  /\ UNCHANGED <<fd_, mode_, is_open_, size_, disk, os_fd_open, os_close_calls,
                 phase>>

\* OSFile::Tell(&pos)
Tell(os_ok) ==
  /\ phase \in {"new", "used"}
  /\ LET st == IF CheckClosed # "OK" THEN CheckClosed
               ELSE IF os_ok /\ FdValid THEN "OK" ELSE "IOError:os"
     IN last' = Call("Tell", st, OsCall(CheckClosed = "OK", st = "OK"), 0,
                     IF st = "OK" THEN fd_offset ELSE 0)
  /\ out' = NoBuffer
  /\ UNCHANGED <<fd_, mode_, is_open_, size_, need_seeking_, disk, fd_offset,
                 os_fd_open, os_close_calls, phase, hist>>

\* The outcome of OSFile::Write(data, length): the checks in the code's order.
WriteStatus(length, os_ok) ==
  IF CheckClosed # "OK" THEN CheckClosed
  ELSE IF CheckPositioned # "OK" THEN CheckPositioned
  ELSE IF length < 0 THEN "IOError:length"
  ELSE IF os_ok /\ FdValid /\ mode_ # "READ" THEN "OK" ELSE "IOError:os"

\* OSFile::Write(data, length); length -1 stands for a negative length.
Write(data, length, os_ok) ==
  /\ phase \in {"new", "used"}
  /\ length = -1 \/ length = Len(data)
  /\ fd_offset + Len(data) <= MaxDisk
  /\ LET st == WriteStatus(length, os_ok)
     IN /\ disk' = IF st = "OK" THEN DiskAfterWrite(fd_offset, data) ELSE disk
        /\ fd_offset' = IF st = "OK" THEN fd_offset + Len(data) ELSE fd_offset
        /\ last' = Call("Write", st, OsCall(st \in {"OK", "IOError:os"}, st = "OK"),
                        length, fd_offset)
  /\ out' = NoBuffer
  /\ UNCHANGED <<fd_, mode_, is_open_, size_, need_seeking_, os_fd_open,
                 os_close_calls, phase, hist>>

\* ------------------------------------------------------------------ OSFile spec
OSInit ==
  /\ fd_ = -1 /\ mode_ = "NONE" /\ is_open_ = FALSE /\ size_ = -1
  /\ need_seeking_ = FALSE
  /\ disk \in {Pattern(k) : k \in 0..MaxFile}
  /\ fd_offset = 0 /\ os_fd_open = FALSE /\ os_close_calls = 0
  /\ phase = "new"
  /\ last = NoCall /\ out = NoBuffer /\ hist = "fresh"

\* MemoryMap::MemoryMap(): no region, sizes 0. position_ and offset_ are set
\* by Open.
MMInit ==
  /\ region_ = 0 /\ file_size_ = 0 /\ map_len_ = 0
  /\ position_ = 0 /\ offset_ = 0
  /\ regions = [id \in 1..MaxRegions |-> FreeRegion]
  /\ slices = <<>>
  /\ vm = [mapped |-> {}, stray |-> FALSE]
  /\ touched = FALSE

\* ------------------------------------------------------------------ no stream
\* A codec object that was not made.
NoCodec == [st |-> "none", q |-> <<>>]

\* No CompressedOutputStream: the members before Make.
NoOutputStream ==
  [made |-> FALSE, is_open_ |-> FALSE, compressed_ |-> <<>>, size |-> 0,
   total_pos_ |-> 0, compressor_ |-> NoCodec, hold |-> 0, room |-> 1,
   ends |-> 0, finalized |-> 0]

\* A null buffer pointer, and a buffer holding the bytes d.
NullBuffer == [null |-> TRUE, data |-> <<>>]
Buf(d) == [null |-> FALSE, data |-> d]

\* No CompressedInputStream: the members before Make.
NoInputStream ==
  [made |-> FALSE, is_open_ |-> FALSE, compressed_ |-> NullBuffer, compressed_pos_ |-> 0,
   decompressed_ |-> NullBuffer, decompressed_pos_ |-> 0, fresh_decompressor_ |-> FALSE,
   total_pos_ |-> 0, decompressor_ |-> NoCodec, eager |-> FALSE, room |-> 1,
   raw_pos |-> 0, raw_closed |-> FALSE, raw_closes |-> 0,
   gone |-> FALSE, produced |-> <<>>, overwrote |-> FALSE]

NoStreamCall ==
  [op |-> "none", st |-> "OK", n |-> 0, data |-> <<>>, pos |-> 0,
   compresses |-> 0, flushes |-> 0, ends |-> 0, writes |-> 0, closes |-> 0,
   aborts |-> 0, reads |-> 0, pre_open |-> FALSE, pre_raw |-> <<>>, pre_pos |-> 0,
   late |-> 0, log |-> <<>>,
   life_ends |-> 0, life_finalized |-> 0]

CSInit ==
  /\ co = NoOutputStream /\ ci = NoInputStream
  /\ raw = [data |-> <<>>, closed |-> TRUE, closes |-> 0, aborts |-> 0]
  /\ cs = [frames |-> <<>>, cur |-> <<>>, got |-> <<>>, broken |-> FALSE, reads |-> "ok"]
  /\ clast = NoStreamCall

\* A single caller: no thread, no mutex taken.
OneThread == th = <<>> /\ mx = <<>> /\ sh = <<>>

\* The calls on files and memory maps leave the compressed streams alone.
NoStream == UNCHANGED <<csVars, thVars>>

\* The calls on a file handle leave the memory map's variables alone.
NoMap == UNCHANGED <<mmVars, touched>> /\ NoStream

OSNext ==
  \/ \E open_ok, size_ok \in BOOLEAN : OpenReadable(open_ok, size_ok) /\ NoMap
  \/ \E append, open_ok, size_ok \in BOOLEAN :
        FileOutputStream_Open(append, open_ok, size_ok) /\ NoMap
  \/ \E ok \in BOOLEAN : Close(ok) /\ NoMap
  \/ \E ok, ndebug \in BOOLEAN : Destructor(ok, ndebug) /\ NoMap
  \/ \E n \in 0..MaxN, ok \in BOOLEAN : Read(n, ok) /\ NoMap
  \/ \E n \in 0..MaxN, ok \in BOOLEAN : ReadBuffer(n, ok) /\ NoMap
  \/ \E p \in -1..MaxPos, n \in 0..MaxN, ok, moves \in BOOLEAN :
        (ok \/ ~moves) /\ ReadAt(p, n, ok, moves) /\ NoMap
  \/ \E p \in -1..MaxPos, n \in 0..MaxN, ok, moves \in BOOLEAN :
        (ok \/ ~moves) /\ ReadBufferAt(p, n, ok, moves) /\ NoMap
  \/ \E p \in -1..MaxPos, ok \in BOOLEAN : Seek(p, ok) /\ NoMap
  \/ \E ok \in BOOLEAN : Tell(ok) /\ NoMap
  \/ \E k \in 0..MaxN, length \in -1..MaxN, ok \in BOOLEAN :
        Write(Payload(k), length, ok) /\ NoMap

\* A fresh handle, a file on disk, and no memory map.
Init == OSInit /\ MMInit /\ CSInit /\ OneThread

\* A ReadableFile or FileOutputStream and the calls made on it.
Spec == Init /\ [][OSNext]_vars

\* ------------------------------------------------------------------ claims
SequentialOps == {"Read", "ReadBuffer", "Write"}
HandleOps == {"Read", "ReadBuffer", "ReadAt", "ReadBufferAt", "Seek", "Tell", "Write"}

\* C1: on an open handle, a Read or Write issued after a ReadAt with no
\* successful Seek in between (a failed Seek does not count) fails with
\* Invalid and issues no OS call; when no ReadAt is pending since the last
\* successful Seek, Read and Write are not rejected for positioning.
C1_SeekDiscipline ==
  (last.op \in SequentialOps /\ last.pre_open) =>
     IF last.pre_hist \in {"unseeked", "unseeked_failedseek"}
     THEN last.st = "Invalid:needseek" /\ last.os = "none"
     ELSE last.st # "Invalid:needseek"

\* Reached: a Read rejected after a ReadAt followed only by a failed Seek.
C1_Witness ==
  /\ last.op = "Read" /\ last.pre_open
  /\ last.pre_hist = "unseeked_failedseek"
  /\ last.st = "Invalid:needseek"

\* C2: on a handle that is not open (after Close), Read, ReadAt, Seek, Tell
\* and Write fail with "Invalid operation on closed file", issue no OS call
\* and leave the needs-seeking flag as it was, also when the flag is set.
C2_ClosedRejectsAll ==
  (last.op \in HandleOps /\ ~last.pre_open) =>
     /\ last.st = "Invalid:closed"
     /\ last.os = "none"
     /\ need_seeking_ = last.pre_need
     /\ ~is_open_

\* Reached: a ReadAt on a handle closed by Close, with the flag still clear.
C2_Witness ==
  /\ last.op = "ReadAt" /\ ~last.pre_open /\ os_close_calls = 1
  /\ ~last.pre_need /\ last.st = "Invalid:closed"

\* C3: the OS close is called at most once, and exactly once by the time a
\* handle that was open is destroyed: the Close that finds the handle open
\* marks it closed (is_open false, fd -1) whatever the OS close returns and
\* returns the OS error if there is one; every other Close returns OK
\* without an OS call.
C3_CloseOnce ==
  /\ os_close_calls <= 1
  /\ is_open_ => (os_close_calls = 0 /\ os_fd_open)
  /\ phase \in {"destroyed", "aborted"} => ~is_open_
  /\ last.op \in {"Close", "Destructor"} =>
        /\ ~is_open_
        /\ IF last.pre_open
           THEN /\ os_close_calls = 1 /\ fd_ = -1 /\ last.os # "none"
                /\ (last.st = "OK") = (last.os = "ok")
                /\ (last.st = "IOError:os") = (last.os = "failed")
           ELSE last.st = "OK" /\ last.os = "none"

\* Reached: the destructor runs after an explicit Close whose OS close was
\* the only one.
C3_Witness ==
  /\ phase = "destroyed" /\ last.op = "Destructor" /\ ~last.pre_open
  /\ os_close_calls = 1

\* C4: a successful ReadBuffer(n) / ReadBufferAt(p, n) returns a buffer whose
\* size is the number of bytes the file holds from the read position, at
\* most n, whose contents are those bytes, and whose memory between size and
\* capacity is zero.
C4_ReadBufferExact ==
  (last.op \in {"ReadBuffer", "ReadBufferAt"} /\ last.st = "OK") =>
     LET expected == FileBytesAt(last.pos, last.n)
     IN /\ out.size = Len(expected)
        /\ out.size <= last.n
        /\ out.size <= out.capacity
        /\ Len(out.data) = out.capacity
        /\ SubSeq(out.data, 1, out.size) = expected
        /\ \A i \in (out.size + 1)..out.capacity : out.data[i] = ZeroByte

\* Reached: a short read, fewer bytes than asked for but not none.
C4_Witness ==
  /\ last.op = "ReadBuffer" /\ last.st = "OK"
  /\ out.size > 0 /\ out.size < last.n

\* ------------------------------------------------------------------ MemoryMap
\* MemoryMap::writable()
Writable == mode_ # "READ"

\* The number of exported slices that hold Region `id`.
SliceRefs(id, sl) == Cardinality({i \in 1..Len(sl) : sl[i] = id})

\* The owners of Region `id`: the MemoryMap's region_ (reg) and the slices.
UseCountOf(id, reg, sl) == (IF reg = id THEN 1 ELSE 0) + SliceRefs(id, sl)

\* region_.use_count()
UseCount == IF region_ = 0 THEN 0 ELSE UseCountOf(region_, region_, slices)

\* ~Region(): a Region no one holds any more is destroyed; it unmaps its
\* extent unless it was detached.
Collect(regs, reg, sl) ==
  [id \in 1..MaxRegions |->
     IF regs[id].state # "free" /\ UseCountOf(id, reg, sl) = 0 THEN FreeRegion
     ELSE regs[id]]

\* The Regions that Collect destroys with their data pointer set.
Unmapping(regs, reg, sl) ==
  {id \in 1..MaxRegions : regs[id].state = "mapped" /\ UseCountOf(id, reg, sl) = 0}

\* ~Region() (file.cc:406-411): munmap of the extent at the data pointer.
Munmapped(m, regs, reg, sl) ==
  [mapped |-> m.mapped \ Unmapping(regs, reg, sl),
   stray |-> m.stray \/ ~(Unmapping(regs, reg, sl) \subseteq m.mapped)]

\* mmap: a new extent, at the address the new Region holds.
Mmapped(m, id) == [m EXCEPT !.mapped = @ \cup {id}]

\* mremap: the extent is now the one at the address the new Region holds.
Mremapped(m, old, id) == [m EXCEPT !.mapped = (@ \ {old}) \cup {id}]

\* A Resize that leaves the old Region its data pointer.
Detached_Not(regs, id) == regs
\* Region::Detach (file.cc:416): the Region forgets its data pointer.
Detached(regs, id) == [regs EXCEPT ![id].state = "detached"]

HasFreeId(regs) == \E id \in 1..MaxRegions : regs[id].state = "free"

\* std::make_shared<Region>: the slot of the new Region object.
FreeId(regs) ==
  CHOOSE id \in 1..MaxRegions :
    /\ regs[id].state = "free"
    /\ \A j \in 1..(id - 1) : regs[j].state # "free"

\* ftruncate: the file cut or zero-extended to k bytes.
Resized(d, k) == [i \in 1..k |-> IF i <= Len(d) THEN d[i] ELSE ZeroByte]

\* The bytes [p, p + n) of the current region can be accessed without fault:
\* the region exists, is mapped, the range lies inside it and inside the file.
Accessible(p, n) ==
  /\ region_ # 0
  /\ regions[region_].state = "mapped"
  /\ p >= 0
  /\ p + n <= regions[region_].size
  /\ regions[region_].off + p + n <= Len(disk)

\* The file bytes the current region shows at [p, p + n).
MappedBytes(p, n) == [i \in 1..n |-> disk[regions[region_].off + p + i]]

\* What a call on the mapping may change, and the record of whether it did.
MapState == <<map_len_, file_size_, position_, offset_, region_, regions, disk>>

Touch == touched' = (MapState' # MapState)

\* InitMMap: the length handed to mmap.
MMapLength(initial_size, length) ==
  IF length >= 0 /\ length < initial_size THEN length ELSE initial_size

\* InitMMap(initial_size, resize_file = false, offset, length): its status;
\* mmap rejects a zero length.
InitMMapStatus(initial_size, length, mmap_ok) ==
  IF length > initial_size THEN "Invalid:maplength"
  ELSE IF ~mmap_ok \/ MMapLength(initial_size, length) = 0 THEN "IOError:os"
  ELSE "OK"

\* The status of MemoryMap::Open on a file holding the bytes d.
OpenStatus(d, length, file_ok, mmap_ok) ==
  IF ~file_ok THEN "IOError:os"
  ELSE IF Len(d) > 0 THEN InitMMapStatus(Len(d), length, mmap_ok)
  ELSE "OK"

\* MemoryMap::Open(path, mode, offset, length) on a file holding the bytes d.
\* MemoryMappedFile::Open hands the object out only when this returns OK;
\* otherwise the object is destroyed at once, which closes the file.
MemoryMap_Open(d, mode, offset, length, file_ok, mmap_ok) ==
  LET st == OpenStatus(d, length, file_ok, mmap_ok)
      mapped == st = "OK" /\ Len(d) > 0
      id == FreeId(regions)
  IN /\ phase' = IF st = "OK" THEN "used" ELSE "destroyed"
     /\ is_open_' = (st = "OK")
     /\ fd_' = IF st = "OK" THEN 3 ELSE -1
     /\ os_fd_open' = (st = "OK")
     /\ os_close_calls' = IF file_ok /\ st # "OK" THEN 1 ELSE 0
     /\ mode_' = IF file_ok THEN mode ELSE mode_
     /\ size_' = IF file_ok THEN Len(d) ELSE size_
     /\ map_len_' = IF mapped THEN MMapLength(Len(d), length) ELSE 0
     /\ offset_' = IF mapped THEN offset ELSE 0
     /\ file_size_' = IF mapped THEN Len(d) ELSE 0
     /\ region_' = IF mapped THEN id ELSE 0
     /\ regions' = IF mapped
                   THEN [regions EXCEPT ![id] = [state |-> "mapped",
                                                size |-> MMapLength(Len(d), length),
                                                off |-> offset]]
                   ELSE regions
     /\ vm' = IF mapped THEN Mmapped(vm, id) ELSE vm
     /\ position_' = 0
     /\ hist' = IF Len(d) > 0 /\ (offset # 0 \/ (length >= 0 /\ length < Len(d)))
                THEN "partial" ELSE "whole"
     /\ out' = NoBuffer
     /\ UNCHANGED <<need_seeking_, fd_offset, slices>>

\* MemoryMappedFile::Open(path, mode[, offset, length])
MM_Open(mode, offset, length, file_ok, mmap_ok) ==
  /\ phase = "new"
  /\ MemoryMap_Open(disk, mode, offset, length, file_ok, mmap_ok)
  /\ last' = Call("Open", OpenStatus(disk, length, file_ok, mmap_ok), "none", length, offset)
  /\ UNCHANGED disk
  /\ Touch

\* MemoryMappedFile::Open(path, FileMode::READ) once more on the same file,
\* after the first object was closed or destroyed: a new object, on which the
\* calls that follow are made. Slices exported by the first object live on.
MM_Reopen(file_ok, mmap_ok) ==
  /\ phase \in {"used", "destroyed"}
  /\ ~is_open_
  /\ HasFreeId(regions)
  /\ MemoryMap_Open(disk, "READ", 0, -1, file_ok, mmap_ok)
  /\ last' = Call("Reopen", OpenStatus(disk, -1, file_ok, mmap_ok), "none", -1, 0)
  /\ UNCHANGED disk
  /\ Touch

\* MemoryMappedFile::Create(path, size): the file is created or truncated,
\* set to `size` zero bytes, closed, and opened READWRITE as a whole.
MM_Create(size, create_ok, file_ok, mmap_ok) ==
  /\ phase = "new"
  /\ IF create_ok
     THEN /\ disk' = Zeros(size)
          /\ MemoryMap_Open(Zeros(size), "READWRITE", 0, -1, file_ok, mmap_ok)
          /\ last' = Call("Create", OpenStatus(Zeros(size), -1, file_ok, mmap_ok),
                          "none", size, 0)
     ELSE /\ disk' = <<>>
          /\ phase' = "destroyed"
          /\ last' = Call("Create", "IOError:os", "none", size, 0)
          /\ out' = NoBuffer
          /\ UNCHANGED <<fd_, mode_, is_open_, size_, need_seeking_, fd_offset,
                         os_fd_open, os_close_calls, hist, mmVars>>
  /\ Touch

\* MemoryMap::Close: drops the reference to the region, closes the file.
MemoryMap_Close(close_ok) ==
  /\ region_' = IF is_open_ THEN 0 ELSE region_
  /\ regions' = IF is_open_ THEN Collect(regions, 0, slices) ELSE regions
  /\ vm' = IF is_open_ THEN Munmapped(vm, regions, 0, slices) ELSE vm
  /\ OSFile_Close(close_ok)

\* MemoryMappedFile::Close
MM_Close(close_ok) ==
  /\ phase = "used"
  /\ MemoryMap_Close(close_ok)
  /\ last' = Call("Close", CloseStatus(close_ok), OsCall(is_open_, close_ok), 0, 0)
  /\ out' = NoBuffer
  /\ UNCHANGED <<mode_, size_, need_seeking_, disk, fd_offset, phase, hist,
                 file_size_, position_, offset_, map_len_, slices>>
  /\ Touch

\* ~MemoryMappedFile: internal::CloseFromDestructor(this)
MM_Destructor(close_ok, ndebug) ==
  /\ phase = "used"
  /\ MemoryMap_Close(close_ok)
  /\ phase' = IF CloseStatus(close_ok) # "OK" /\ ~ndebug THEN "aborted" ELSE "destroyed"
  /\ last' = Call("Destructor", CloseStatus(close_ok), OsCall(is_open_, close_ok), 0, 0)
  /\ out' = NoBuffer
  /\ UNCHANGED <<mode_, size_, need_seeking_, disk, fd_offset, hist,
                 file_size_, position_, offset_, map_len_, slices>>
  /\ Touch

\* A caller drops the i-th exported buffer; the Region goes with its last owner.
MM_Release(i) ==
  /\ phase \in {"used", "destroyed"}
  /\ i \in 1..Len(slices)
  /\ slices' = [j \in 1..(Len(slices) - 1) |-> IF j < i THEN slices[j] ELSE slices[j + 1]]
  /\ regions' = Collect(regions, region_, slices')
  /\ vm' = Munmapped(vm, regions, region_, slices')
  /\ last' = Call("Release", "OK", "none", 0, 0)
  /\ out' = NoBuffer
  /\ UNCHANGED <<osVarsButLast, region_, file_size_, position_, offset_, map_len_>>
  /\ Touch

\* MemoryMap::Seek(position)
MM_Seek(position) ==
  /\ phase = "used"
  /\ position_' = IF position < 0 THEN position_ ELSE position
  /\ last' = Call("Seek", IF position < 0 THEN "Invalid:position" ELSE "OK", "none",
                  0, position)
  /\ out' = NoBuffer
  /\ UNCHANGED <<osVarsButLast, region_, file_size_, offset_, map_len_, regions, vm, slices>>
  /\ Touch

\* MemoryMappedFile::Tell / GetSize: the position and the size reported.
MM_Tell ==
  /\ phase = "used"
  /\ last' = Call("Tell", "OK", "none", map_len_, position_)
  /\ out' = NoBuffer
  /\ UNCHANGED <<osVarsButLast, mmVars>>
  /\ Touch

\* Mutation: Resize does not look at the use count.
ResizeRejection_NoReaderCheck ==
  IF ~Writable THEN "IOError:readonly"
  ELSE IF map_len_ # file_size_ THEN "IOError:partial"
  ELSE "OK"

\* MemoryMap::Resize: the three checks that reject a resize.
ResizeRejection ==
  IF ~Writable THEN "IOError:readonly"
  ELSE IF map_len_ # file_size_ THEN "IOError:partial"
  ELSE IF UseCount > 1 THEN "IOError:readers"
  ELSE "OK"

\* Resize(0): the region is dropped, then the file truncated; the sizes are
\* reset only when the truncate succeeded.
ResizeToZero(os_ok) ==
  IF map_len_ > 0
  THEN /\ region_' = 0
       /\ regions' = Collect(regions, 0, slices)
       /\ vm' = Munmapped(vm, regions, 0, slices)
       /\ IF os_ok /\ FdValid
          THEN /\ disk' = <<>>
               /\ map_len_' = 0 /\ offset_' = 0 /\ file_size_' = 0
               /\ position_' = 0
               /\ last' = Call("Resize", "OK", "ok", 0, 0)
          ELSE /\ UNCHANGED <<disk, map_len_, offset_, file_size_, position_>>
               /\ last' = Call("Resize", "IOError:os", "failed", 0, 0)
       /\ UNCHANGED phase
  ELSE /\ position_' = 0
       /\ last' = Call("Resize", "OK", "none", 0, 0)
       /\ UNCHANGED <<disk, map_len_, offset_, file_size_, region_, regions, vm, phase>>

\* Resize(new_size) of an existing mapping: MemoryMapRemap resizes the file
\* and moves the mapping; the old Region is detached and replaced.
ResizeRemap(new_size, os_ok) ==
  IF region_ = 0
  THEN \* region_->data() through a null pointer
       /\ phase' = "crashed"
       /\ last' = Call("Resize", "crash", "none", new_size, 0)
       /\ UNCHANGED <<disk, map_len_, offset_, file_size_, position_, region_, regions, vm>>
  ELSE IF os_ok /\ FdValid
  THEN LET id == FreeId(regions)
           moved == [Detached(regions, region_) EXCEPT
                       ![id] = [state |-> "mapped", size |-> new_size,
                                off |-> regions[region_].off]]
       IN /\ disk' = Resized(disk, new_size)
          /\ region_' = id
          /\ regions' = Collect(moved, id, slices)
          /\ vm' = Munmapped(Mremapped(vm, region_, id), moved, id, slices)
          /\ map_len_' = new_size /\ file_size_' = new_size
          /\ offset_' = 0
          /\ position_' = IF position_ > new_size THEN new_size ELSE position_
          /\ last' = Call("Resize", "OK", "ok", new_size, 0)
          /\ UNCHANGED phase
  ELSE /\ last' = Call("Resize", "IOError:os", "failed", new_size, 0)
       /\ UNCHANGED <<disk, map_len_, offset_, file_size_, position_, region_, regions, vm,
                      phase>>

\* Resize(new_size) without a mapping: InitMMap(new_size, resize_file = true)
\* truncates the file to new_size and maps it. The DCHECKs on position_ and
\* region_ abort a debug build.
ResizeInit(new_size, os_ok, mmap_ok, ndebug) ==
  IF ~ndebug /\ (position_ # 0 \/ region_ # 0)
  THEN /\ phase' = "aborted"
       /\ last' = Call("Resize", "abort", "none", new_size, 0)
       /\ UNCHANGED <<disk, map_len_, offset_, file_size_, position_, region_, regions, vm>>
  ELSE IF ~(os_ok /\ FdValid)
  THEN /\ last' = Call("Resize", "IOError:os", "failed", new_size, 0)
       /\ UNCHANGED <<disk, map_len_, offset_, file_size_, position_, region_, regions, vm,
                      phase>>
  ELSE IF ~mmap_ok
  THEN /\ disk' = Resized(disk, new_size)
       /\ last' = Call("Resize", "IOError:os", "failed", new_size, 0)
       /\ UNCHANGED <<map_len_, offset_, file_size_, position_, region_, regions, vm, phase>>
  ELSE LET id == FreeId(regions)
       IN /\ disk' = Resized(disk, new_size)
          /\ map_len_' = new_size /\ offset_' = 0 /\ file_size_' = new_size
          /\ region_' = id
          /\ regions' = [regions EXCEPT ![id] = [state |-> "mapped", size |-> new_size,
                                                 off |-> 0]]
          /\ vm' = Mmapped(vm, id)
          /\ last' = Call("Resize", "OK", "ok", new_size, 0)
          /\ UNCHANGED <<position_, phase>>

\* MemoryMappedFile::Resize(new_size) -> MemoryMap::Resize(new_size)
MM_Resize(new_size) ==
  /\ phase = "used"
  /\ HasFreeId(regions) \/ ResizeRejection # "OK"
  /\ IF ResizeRejection # "OK"
     THEN /\ last' = Call("Resize", ResizeRejection, "none", new_size, 0)
          /\ UNCHANGED <<disk, map_len_, offset_, file_size_, position_, region_,
                         regions, vm, phase>>
     ELSE IF new_size = 0 THEN \E os_ok \in BOOLEAN : ResizeToZero(os_ok)
     ELSE IF map_len_ > 0 THEN \E os_ok \in BOOLEAN : ResizeRemap(new_size, os_ok)
     ELSE \E os_ok, mmap_ok, ndebug \in BOOLEAN :
            ResizeInit(new_size, os_ok, mmap_ok, ndebug)
  /\ out' = NoBuffer
  /\ UNCHANGED <<fd_, mode_, is_open_, size_, need_seeking_, fd_offset, os_fd_open,
                 os_close_calls, hist, slices>>
  /\ Touch

\* Mutation: the length is capped by the request alone.
SliceLength_NoClamp(offset, length) == Max(0, length)

\* MemoryMap::Slice: the length of the slice handed out.
SliceLength(offset, length) == Max(0, Min(length, map_len_ - offset))

\* The buffer Slice returns: a view of the region, or an empty buffer that
\* refers to nothing.
SliceOut(offset, length) ==
  IF length > 0
  THEN [size |-> length, capacity |-> length, data |-> <<>>, kind |-> "slice",
        region |-> region_, offset |-> offset]
  ELSE [size |-> 0, capacity |-> 0, data |-> <<>>, kind |-> "empty",
        region |-> 0, offset |-> 0]

\* MemoryMap::Slice(offset, length) and what the caller's position becomes
\* (advance = TRUE for Read). With no region and a non-empty result the
\* DCHECK fires or SliceBuffer reads through the null pointer.
SliceEffect(op, offset, length, advance) ==
  LET len == SliceLength(offset, length)
  IN IF len > 0 /\ region_ = 0
     THEN /\ phase' = "crashed"
          /\ last' = Call(op, "crash", "none", length, offset)
          /\ out' = NoBuffer
          /\ UNCHANGED <<slices, position_>>
     ELSE /\ len > 0 => Len(slices) < MaxSlices
          /\ slices' = IF len > 0
                       THEN Append(slices, region_)
                       ELSE slices
          /\ out' = SliceOut(offset, len)
          /\ position_' = IF advance THEN position_ + len ELSE position_
          /\ last' = Call(op, "OK", "none", length, offset)
          /\ UNCHANGED phase

\* MemoryMappedFile::ReadAt(position, nbytes, &buffer)
MM_ReadAtBuffer(position, nbytes) ==
  /\ phase = "used"
  /\ SliceEffect("ReadAtBuffer", position, nbytes, FALSE)
  /\ UNCHANGED <<fd_, mode_, is_open_, size_, need_seeking_, disk, fd_offset,
                 os_fd_open, os_close_calls, hist, region_, file_size_, offset_,
                 map_len_, regions, vm>>
  /\ Touch

\* MemoryMappedFile::Read(nbytes, &buffer)
MM_ReadBuffer(nbytes) ==
  /\ phase = "used"
  /\ SliceEffect("ReadBuffer", position_, nbytes, TRUE)
  /\ UNCHANGED <<fd_, mode_, is_open_, size_, need_seeking_, disk, fd_offset,
                 os_fd_open, os_close_calls, hist, region_, file_size_, offset_,
                 map_len_, regions, vm>>
  /\ Touch

\* Mutation: the copy is capped by the request alone.
CopyLength_NoClamp(position, nbytes) == Max(0, nbytes)

\* MemoryMappedFile::ReadAt(position, nbytes, &bytes_read, out): the count.
CopyLength(position, nbytes) == Max(0, Min(nbytes, map_len_ - position))

\* What memcpy(out, data() + position, n) produces. An access outside the
\* mapped file bytes is undefined: the process dies ("crash") or the copy
\* delivers bytes that are not the file's ("garbage"); with no region the
\* source is the null page and the process dies.
CopyEffect(op, position, nbytes, advance) ==
  LET n == CopyLength(position, nbytes)
  IN IF n > 0 /\ ~Accessible(position, n)
     THEN \E ub \in IF region_ = 0 THEN {"crash"} ELSE {"crash", "garbage"} :
            /\ phase' = IF ub = "crash" THEN "crashed" ELSE phase
            /\ last' = Call(op, IF ub = "crash" THEN "crash" ELSE "OK", "none",
                            nbytes, position)
            /\ out' = IF ub = "crash" THEN NoBuffer ELSE Copied([i \in 1..n |-> Uninit])
            /\ position_' = IF ub = "garbage" /\ advance THEN position_ + n ELSE position_
     ELSE /\ out' = Copied(MappedBytes(position, n))
          /\ position_' = IF advance THEN position_ + n ELSE position_
          /\ last' = Call(op, "OK", "none", nbytes, position)
          /\ UNCHANGED phase

\* MemoryMappedFile::ReadAt(position, nbytes, &bytes_read, out)
MM_ReadAt(position, nbytes) ==
  /\ phase = "used"
  /\ CopyEffect("ReadAt", position, nbytes, FALSE)
  /\ UNCHANGED <<fd_, mode_, is_open_, size_, need_seeking_, disk, fd_offset,
                 os_fd_open, os_close_calls, hist, region_, file_size_, offset_,
                 map_len_, regions, vm, slices>>
  /\ Touch

\* MemoryMappedFile::Read(nbytes, &bytes_read, out)
MM_Read(nbytes) ==
  /\ phase = "used"
  /\ CopyEffect("Read", position_, nbytes, TRUE)
  /\ UNCHANGED <<fd_, mode_, is_open_, size_, need_seeking_, disk, fd_offset,
                 os_fd_open, os_close_calls, hist, region_, file_size_, offset_,
                 map_len_, regions, vm, slices>>
  /\ Touch

\* Mutation: only a closed mapping refuses writes.
WriteRefusal_OpenOnly == IF ~is_open_ THEN "IOError:write" ELSE "OK"

\* Write / WriteAt: "Unable to write" on a closed or read-only mapping.
WriteRefusal == IF ~is_open_ \/ ~Writable THEN "IOError:write" ELSE "OK"

\* Mutation: the store lands at the mapping's old position, as if WriteAt
\* had not sought to its argument.
DiskAfterStore_NoSeek(position, data) ==
  [i \in 1..Len(disk) |->
     IF i > regions[region_].off + position_
        /\ i <= regions[region_].off + position_ + Len(data)
     THEN data[i - regions[region_].off - position_]
     ELSE disk[i]]

\* The file after memcpy(head(), data, nbytes) into a shared mapping.
DiskAfterStore(position, data) ==
  [i \in 1..Len(disk) |->
     IF i > regions[region_].off + position
        /\ i <= regions[region_].off + position + Len(data)
     THEN data[i - regions[region_].off - position]
     ELSE disk[i]]

\* MemoryMappedFile::WriteInternal(data, nbytes) at `position`, the value
\* position_ has when it runs. A store outside the mapped file bytes is
\* undefined: the process dies.
WriteInternal(op, position, data) ==
  IF Len(data) > 0 /\ ~Accessible(position, Len(data))
  THEN /\ phase' = "crashed"
       /\ last' = Call(op, "crash", "none", Len(data), position)
       /\ UNCHANGED <<disk, position_>>
  ELSE /\ disk' = IF Len(data) > 0 THEN DiskAfterStore(position, data) ELSE disk
       /\ position_' = position + Len(data)
       /\ last' = Call(op, "OK", "none", Len(data), position)
       /\ UNCHANGED phase

\* Mutation: the bounds check lets one byte too many through.
PastEnd_OffByOne(position, nbytes) == position + nbytes > map_len_ + 1

\* WriteAt / Write: "Cannot write past end of memory map".
PastEnd(position, nbytes) == position + nbytes > map_len_

\* A WriteAt that seeks to its position before it checks the bounds.
MM_WriteAt_SeekFirst(position, data) ==
  /\ phase = "used"
  /\ IF WriteRefusal # "OK"
     THEN /\ last' = Call("WriteAt", WriteRefusal, "none", Len(data), position)
          /\ UNCHANGED <<disk, position_, phase>>
     ELSE IF position < 0
     THEN /\ last' = Call("WriteAt", "Invalid:position", "none", Len(data), position)
          /\ UNCHANGED <<disk, position_, phase>>
     ELSE IF PastEnd(position, Len(data))
     THEN /\ last' = Call("WriteAt", "Invalid:pastend", "none", Len(data), position)
          /\ position_' = position
          /\ UNCHANGED <<disk, phase>>
     ELSE WriteInternal("WriteAt", position, data)
  /\ out' = NoBuffer
  /\ UNCHANGED <<fd_, mode_, is_open_, size_, need_seeking_, fd_offset, os_fd_open,
                 os_close_calls, hist, region_, file_size_, offset_, map_len_,
                 regions, vm, slices>>
  /\ Touch
\* MemoryMappedFile::WriteAt(position, data, nbytes)
MM_WriteAt(position, data) ==
  /\ phase = "used"
  /\ IF WriteRefusal # "OK"
     THEN /\ last' = Call("WriteAt", WriteRefusal, "none", Len(data), position)
          /\ UNCHANGED <<disk, position_, phase>>
     ELSE IF PastEnd(position, Len(data))
     THEN /\ last' = Call("WriteAt", "Invalid:pastend", "none", Len(data), position)
          /\ UNCHANGED <<disk, position_, phase>>
     ELSE IF position < 0
     THEN /\ last' = Call("WriteAt", "Invalid:position", "none", Len(data), position)
          /\ UNCHANGED <<disk, position_, phase>>
     ELSE WriteInternal("WriteAt", position, data)
  /\ out' = NoBuffer
  /\ UNCHANGED <<fd_, mode_, is_open_, size_, need_seeking_, fd_offset, os_fd_open,
                 os_close_calls, hist, region_, file_size_, offset_, map_len_,
                 regions, vm, slices>>
  /\ Touch

\* MemoryMappedFile::Write(data, nbytes)
MM_Write(data) ==
  /\ phase = "used"
  /\ IF WriteRefusal # "OK"
     THEN /\ last' = Call("Write", WriteRefusal, "none", Len(data), position_)
          /\ UNCHANGED <<disk, position_, phase>>
     ELSE IF PastEnd(position_, Len(data))
     THEN /\ last' = Call("Write", "Invalid:pastend", "none", Len(data), position_)
          /\ UNCHANGED <<disk, position_, phase>>
     ELSE WriteInternal("Write", position_, data)
  /\ out' = NoBuffer
  /\ UNCHANGED <<fd_, mode_, is_open_, size_, need_seeking_, fd_offset, os_fd_open,
                 os_close_calls, hist, region_, file_size_, offset_, map_len_,
                 regions, vm, slices>>
  /\ Touch

\* ------------------------------------------------------------------ MemoryMap spec
MMFileInit ==
  /\ fd_ = -1 /\ mode_ = "NONE" /\ is_open_ = FALSE /\ size_ = -1
  /\ need_seeking_ = FALSE
  /\ disk \in {Pattern(k) : k \in 0..MaxMap}
  /\ fd_offset = 0 /\ os_fd_open = FALSE /\ os_close_calls = 0
  /\ phase = "new"
  /\ last = NoCall /\ out = NoBuffer /\ hist = "fresh"

MMNext ==
  \/ \E mode \in {"READ", "READWRITE"}, offset \in 0..1, length \in -1..MaxMap,
        file_ok, mmap_ok \in BOOLEAN : MM_Open(mode, offset, length, file_ok, mmap_ok) /\ NoStream
  \/ \E size \in 0..MaxMap, create_ok, file_ok, mmap_ok \in BOOLEAN :
        MM_Create(size, create_ok, file_ok, mmap_ok) /\ NoStream
  \/ \E file_ok, mmap_ok \in BOOLEAN : MM_Reopen(file_ok, mmap_ok) /\ NoStream
  \/ \E ok \in BOOLEAN : MM_Close(ok) /\ NoStream
  \/ \E ok, ndebug \in BOOLEAN : MM_Destructor(ok, ndebug) /\ NoStream
  \/ \E i \in 1..MaxSlices : MM_Release(i) /\ NoStream
  \/ \E p \in -1..MaxPos : MM_Seek(p) /\ NoStream
  \/ MM_Tell /\ NoStream
  \/ \E k \in 0..MaxMap : MM_Resize(k) /\ NoStream
  \/ \E p \in -1..MaxMap, n \in -1..MaxN : MM_ReadAtBuffer(p, n) /\ NoStream
  \/ \E n \in -1..MaxN : MM_ReadBuffer(n) /\ NoStream
  \/ \E p \in -1..MaxMap, n \in -1..MaxN : MM_ReadAt(p, n) /\ NoStream
  \/ \E n \in -1..MaxN : MM_Read(n) /\ NoStream
  \/ \E p \in -1..MaxPos, k \in 0..MaxN : MM_WriteAt(p, Payload(k)) /\ NoStream
  \/ \E k \in 0..MaxN : MM_Write(Payload(k)) /\ NoStream

\* A MemoryMappedFile and the calls made on it.
\* An unopened memory map and a file on disk.
InitMM == MMFileInit /\ MMInit /\ CSInit /\ OneThread

SpecMM == InitMM /\ [][MMNext]_vars

\* ------------------------------------------------------------------ claims
ReadOps == {"ReadAt", "ReadAtBuffer", "Read", "ReadBuffer"}

\* C5: on a mapping opened read-only, every Resize, Write and WriteAt fails
\* with IOError, whatever its arguments, and changes neither the size, the
\* position nor the bytes.
C5_ReadOnlyRejectsWrites ==
  (last.op \in {"Resize", "Write", "WriteAt"} /\ mode_ = "READ") =>
     IsIOError(last.st) /\ ~touched

\* Reached: a WriteAt past the end of an open read-only mapping, refused as
\* a write and not as out of bounds.
C5_Witness ==
  /\ last.op = "WriteAt" /\ mode_ = "READ" /\ is_open_
  /\ last.pos + last.n > map_len_
  /\ last.st = "IOError:write"

\* C6: on an open writable whole-file mapping, a Resize issued while an
\* exported non-empty slice is alive fails with IOError ("active readers")
\* and changes nothing; a read that yields no bytes exports nothing, one
\* that yields bytes holds the region; with no slice alive Resize is never
\* refused for active readers.
C6_ResizeBlockedBySlices ==
  /\ (last.op = "Resize" /\ last.pre_open /\ Writable /\ map_len_ = file_size_
        /\ slices # <<>>) =>
        (last.st = "IOError:readers" /\ ~touched)
  /\ (last.op = "Resize" /\ slices = <<>>) => last.st # "IOError:readers"
  /\ (last.op \in {"ReadAtBuffer", "ReadBuffer"} /\ last.st = "OK") =>
        IF out.size = 0 THEN out.kind = "empty" /\ out.region = 0
        ELSE out.kind = "slice" /\ SliceRefs(out.region, slices) >= 1

\* Reached: a Resize refused because of a live slice.
C6_Witness ==
  /\ last.op = "Resize" /\ last.st = "IOError:readers" /\ hist = "whole"
  /\ Len(slices) = 1

\* C7: a writable mapping opened on a partial range (non-zero offset, or a
\* length below the file size) refuses every Resize with IOError and keeps
\* its mapping and file size.
C7_PartialRejectsResize ==
  (last.op = "Resize" /\ last.pre_open /\ Writable /\ hist = "partial") =>
     IsIOError(last.st) /\ ~touched

\* Reached: a mapping opened at a non-zero offset whose Resize to a positive
\* size succeeded and changed the mapping.
C7_Witness ==
  /\ last.op = "Resize" /\ last.pre_open /\ hist = "partial"
  /\ last.st = "OK" /\ last.n > 0 /\ touched

\* C8: on an open writable whole-file mapping, after every successful
\* Resize(k) the size is k and the file is k bytes long; after Resize(0)
\* there is no region, after Resize(k > 0) the region shows exactly the k
\* bytes of the file.
C8_ResizeSetsSize ==
  (last.op = "Resize" /\ last.st = "OK" /\ last.pre_open /\ hist = "whole") =>
     /\ map_len_ = last.n
     /\ Len(disk) = last.n
     /\ IF last.n = 0 THEN region_ = 0
        ELSE Accessible(0, last.n) /\ regions[region_].size = last.n

\* Reached: a Resize(0) that returned OK and left bytes in the file.
C8_Witness ==
  /\ last.op = "Resize" /\ last.pre_open /\ hist = "whole"
  /\ last.st = "OK" /\ last.n = 0 /\ Len(disk) > 0

\* C9: on an open mapping of size S, every read at a position p >= 0
\* succeeds and yields exactly max(0, min(n, S - p)) bytes, the mapped file
\* bytes from p on (a slice of them for the buffer form), and Read advances
\* the position by that count.
C9_ReadClamped ==
  (last.op \in ReadOps /\ last.pre_open /\ last.pos >= 0) =>
     /\ last.st = "OK"
     /\ out.size = Max(0, Min(last.n, map_len_ - last.pos))
     /\ out.size > 0 => Accessible(last.pos, out.size)
     /\ (out.size > 0 /\ out.kind = "copy") => out.data = MappedBytes(last.pos, out.size)
     /\ (out.size > 0 /\ out.kind = "slice") =>
           (out.region = region_ /\ out.offset = last.pos)
     /\ last.op \in {"Read", "ReadBuffer"} => position_ = last.pos + out.size

\* Reached: a copying read inside [0, S) of a whole-file mapping that finds no
\* region behind the size and faults.
C9_Witness ==
  /\ last.op = "ReadAt" /\ last.pre_open /\ hist = "whole"
  /\ last.pos >= 0 /\ last.pos + last.n <= map_len_ /\ last.n > 0
  /\ region_ = 0 /\ last.st = "crash"

\* C10: on an open mapping a ReadAt at a negative position fails with an
\* error, in the buffer form and in the copy form, and yields no bytes.
C10_NegativePositionFails ==
  (last.op \in {"ReadAt", "ReadAtBuffer"} /\ last.pre_open /\ last.pos < 0) =>
     (IsInvalid(last.st) \/ IsIOError(last.st)) /\ out = NoBuffer

\* Reached: a copying ReadAt at position -1 that returned OK with bytes taken
\* from before the mapping.
C10_Witness ==
  /\ last.op = "ReadAt" /\ last.pre_open /\ last.pos < 0
  /\ last.st = "OK" /\ out.size > 0

WriteOps == {"Write", "WriteAt"}

\* A step that is a Write or a WriteAt keeps the sizes; on an open writable
\* mapping it returns Invalid and changes nothing when it would end past S.
C11_WriteStep ==
  last'.op \in WriteOps =>
     /\ map_len_' = map_len_ /\ file_size_' = file_size_ /\ Len(disk') = Len(disk)
     /\ (is_open_ /\ Writable /\ last'.pos + last'.n > map_len_) =>
           (IsInvalid(last'.st) /\ MapState' = MapState)

\* C11: on an open writable mapping of size S, Write at position + n > S and
\* WriteAt at p + n > S fail with Invalid, and no write changes the size of
\* the mapping or the length of the file.
C11_WritesKeepSize == [][C11_WriteStep]_vars

\* Reached: a Write refused as past the end after the position had advanced.
C11_Witness ==
  /\ last.op = "Write" /\ last.pre_open /\ Writable
  /\ last.pos > 0 /\ last.pos + last.n > map_len_
  /\ last.st = "Invalid:pastend"

\* The bytes [p, p + n) of the file d, cut at its end.
FileSlice(d, p, n) == [i \in 1..Max(0, Min(n, Len(d) - p)) |-> d[p + i]]

\* The steps of the write / read-back round trip: a successful WriteAt stores
\* data at [p, p + n) of the mapping, leaves the other bytes and moves the
\* position to p + n; the ReadAt(p, n) that follows returns data; closing,
\* destroying and reopening leave the file alone; a ReadAt on a read-only
\* whole-file mapping returns the bytes of the file.
C12_Step ==
  /\ (last'.op = "WriteAt" /\ last'.st = "OK") =>
        /\ position_' = last'.pos + last'.n
        /\ Len(disk') = Len(disk)
        /\ last'.n = 0 => disk' = disk
        /\ last'.n > 0 =>
              \A i \in 1..Len(disk) :
                 disk'[i] = IF /\ i > regions[region_].off + last'.pos
                               /\ i <= regions[region_].off + last'.pos + last'.n
                            THEN Payload(last'.n)[i - regions[region_].off - last'.pos]
                            ELSE disk[i]
  /\ (last.op = "WriteAt" /\ last.st = "OK" /\ last'.pos = last.pos /\ last'.n = last.n) =>
        /\ last'.op = "ReadAt" =>
              (last'.st = "OK" /\ out' = Copied(Payload(last.n)))
        /\ (last'.op = "ReadAtBuffer" /\ last.n > 0) =>
              /\ last'.st = "OK" /\ out'.kind = "slice" /\ out'.size = last.n
              /\ out'.region = region_ /\ out'.offset = last.pos
              /\ MappedBytes(last.pos, last.n) = Payload(last.n)
  /\ last'.op \in {"Close", "Destructor", "Reopen"} => disk' = disk
  /\ (last'.op = "ReadAt" /\ is_open_ /\ mode_ = "READ" /\ hist = "whole"
        /\ last'.pos >= 0) =>
        (last'.st = "OK" /\ out' = Copied(FileSlice(disk, last'.pos, last'.n)))

Life ==
  IF phase = "new" THEN "Unopened"
  ELSE IF ~is_open_ THEN "Closed"
  ELSE IF region_ = 0 /\ map_len_ = 0 THEN "OpenNoMapping"
  ELSE IF region_ # 0 /\ map_len_ > 0 THEN "Mapped"
  ELSE "Broken"

OpenStates == {"OpenNoMapping", "Mapped"}

\* One step of the lifecycle, on one object (a Reopen starts another object).
C13_Step ==
  last'.op # "Reopen" =>
    /\ Life' # "Broken"
    /\ Life = "Unopened" =>
          /\ last'.op \in {"Open", "Create"}
          /\ IF last'.st = "OK"
             THEN /\ Life' = IF Len(disk') = 0 THEN "OpenNoMapping" ELSE "Mapped"
                  /\ position_' = 0
                  /\ last'.op = "Open" => disk' = disk
             ELSE Life' = "Closed"
    /\ (Life \in OpenStates /\ Life' \in OpenStates /\ Life' # Life) =>
          (last'.op = "Resize" /\ last'.st = "OK")
    /\ (Life \in OpenStates /\ last'.op = "Resize" /\ last'.st = "OK") =>
          Life' = IF last'.n > 0 THEN "Mapped" ELSE "OpenNoMapping"
    /\ (Life \in OpenStates /\ last'.op \in {"Close", "Destructor"}) => Life' = "Closed"
    /\ Life = "Closed" => (Life' = "Closed" /\ region_' = 0)

\* C13: the object moves through Unopened, OpenNoMapping, Mapped and Closed:
\* Open / Create yield OpenNoMapping on an empty file and Mapped, content
\* kept, otherwise; only a successful Resize moves between OpenNoMapping and
\* Mapped; Close leads to Closed, which is never left and maps nothing.
C13_Lifecycle == [][C13_Step]_vars

\* Reached: an open object left by a failed Resize(0) with a size and no
\* region, which is none of the four states.
C13_Witness ==
  /\ last.op = "Resize" /\ last.n = 0 /\ IsIOError(last.st)
  /\ Life = "Broken"

ClosedOps == {"Read", "ReadBuffer", "ReadAt", "ReadAtBuffer", "Seek", "Tell", "Resize"}

\* C14: after Close, every Read, ReadAt, Seek, Tell and Resize fails with an
\* error and hands out no bytes; none touches the former mapping.
C14_ClosedMapRejects ==
  (last.op \in ClosedOps /\ ~last.pre_open) =>
     /\ IsInvalid(last.st) \/ IsIOError(last.st)
     /\ out = NoBuffer
     /\ ~touched

\* Reached: on a closed mapping that had bytes, a copying ReadAt inside the
\* former size that reads through the dropped region and faults.
C14_Witness ==
  /\ last.op = "ReadAt" /\ ~last.pre_open /\ ~is_open_
  /\ last.n > 0 /\ last.pos >= 0 /\ last.pos + last.n <= map_len_
  /\ last.st = "crash"

\* ================================================================== codec
\* The codec is a collaborator of compressed.cc that lives outside it. The
\* model uses a small framing codec with the shape of the streaming codecs
\* the streams are built for: a frame is a header byte "H", one encoded byte
\* per plaintext byte, and a trailer byte "T".
Enc(b) == IF b = "a" THEN "A" ELSE "B"
Dec(e) == IF e = "A" THEN "a" ELSE "b"
EncAll(p) == [i \in 1..Len(p) |-> Enc(p[i])]
Frame(p) == <<"H">> \o EncAll(p) \o <<"T">>

RECURSIVE Frames(_)
Frames(ps) == IF ps = <<>> THEN <<>> ELSE Frame(Head(ps)) \o Frames(Tail(ps))

RECURSIVE Flat(_)
Flat(ps) == IF ps = <<>> THEN <<>> ELSE Head(ps) \o Flat(Tail(ps))

Take(q, n) == SubSeq(q, 1, Max(0, Min(n, Len(q))))
Drop(q, n) == SubSeq(q, Max(0, Min(n, Len(q))) + 1, Len(q))

\* A compressor is "fresh" until its first call, then in the "body" of its
\* frame; End moves it to "ending" while trailer bytes wait for room and to
\* "ended" once they are all out. q holds the bytes produced and not yet
\* handed out; the header is produced by the first call.
NewCompressor == [st |-> "fresh", q |-> <<>>]
Started(c) == c.q \o (IF c.st = "fresh" THEN <<"H">> ELSE <<>>)
Ending(c) == IF c.st = "ending" THEN c.q ELSE Started(c) \o <<"T">>

\* What Compress returns once it has taken k input bytes: produced holds the
\* bytes the compressor held followed by the encoding of those k bytes.
Compressed(produced, k, cap, hold) ==
  [st |-> "OK",
   c |-> [st |-> "body", q |-> Drop(produced, Min(cap, Len(produced) - hold))],
   bytes_read |-> k, output |-> Take(produced, Min(cap, Len(produced) - hold))]

\* Compress: a compressor keeps up to `hold` produced bytes to itself until
\* it is flushed or ended, and does nothing when offered less than `room`
\* bytes of output space.
Compress(c, input, cap, hold, room) ==
  IF c.st \in {"ending", "ended"}
  THEN [st |-> "IOError:codec", c |-> c, bytes_read |-> 0, output |-> <<>>]
  ELSE IF cap < room
  THEN [st |-> "OK", c |-> c, bytes_read |-> 0, output |-> <<>>]
  ELSE Compressed(Started(c) \o EncAll(Take(input, cap + hold - Len(Started(c)))),
                  Min(Len(input), Max(0, cap + hold - Len(Started(c)))), cap, hold)

\* Flush: hand out what the compressor holds, as far as the space goes.
CodecFlush(c, cap) ==
  IF c.st \in {"ending", "ended"}
  THEN [st |-> "IOError:codec", c |-> c, output |-> <<>>, should_retry |-> FALSE]
  ELSE [st |-> "OK", c |-> [st |-> "body", q |-> Drop(Started(c), cap)],
        output |-> Take(Started(c), cap), should_retry |-> Len(Started(c)) > cap]

\* End: produce the trailer and hand out what is held, as far as the space goes.
CodecEnd(c, cap) ==
  IF c.st = "ended"
  THEN [st |-> "IOError:codec", c |-> c, output |-> <<>>, should_retry |-> FALSE]
  ELSE [st |-> "OK",
        c |-> [st |-> IF Len(Ending(c)) > cap THEN "ending" ELSE "ended",
               q |-> Drop(Ending(c), cap)],
        output |-> Take(Ending(c), cap), should_retry |-> Len(Ending(c)) > cap]

\* ================================================================== raw stream
\* The raw OutputStream: a write appends, unless the stream is closed or the
\* write fails.
RawWriteStatus(r, ok) ==
  IF r.closed THEN "Invalid:closed" ELSE IF ~ok THEN "IOError:write" ELSE "OK"
RawWrite(r, bytes, ok) ==
  IF RawWriteStatus(r, ok) = "OK" THEN [r EXCEPT !.data = @ \o bytes] ELSE r

\* ================================================================== CompressedOutputStream
\* One call in progress: the stream's members s, the raw stream, the status
\* so far, whether raw writes succeed, what the call has done, and the
\* bytes_read of its last Compress.
StartCall(s, r, ok) ==
  [s |-> s, raw |-> r, st |-> "OK", ok |-> ok, compresses |-> 0, flushes |-> 0,
   ends |-> 0, writes |-> 0, bytes_read |-> 0, late |-> 0, log |-> <<>>]

\* 1 for a codec call or raw write made by a call that has already failed.
Late(x) == IF x.st # "OK" THEN 1 ELSE 0

compressed_pos_(s) == Len(s.compressed_)

\* A FlushCompressed that resets the fill position whatever the raw write
\* returned.
FlushCompressed_Resetting(x) ==
  IF compressed_pos_(x.s) > 0
  THEN IF RawWriteStatus(x.raw, x.ok) # "OK"
       THEN [x EXCEPT !.st = RawWriteStatus(x.raw, x.ok), !.writes = @ + 1,
                      !.s.compressed_ = <<>>, !.late = @ + Late(x),
                      !.log = Append(@, "write")]
       ELSE [x EXCEPT !.raw = RawWrite(x.raw, x.s.compressed_, x.ok),
                      !.s.compressed_ = <<>>, !.writes = @ + 1, !.late = @ + Late(x),
                      !.log = Append(@, "write")]
  ELSE x
\* CompressedOutputStream::Impl::FlushCompressed (compressed.cc:66-72)
FlushCompressed(x) ==
  IF compressed_pos_(x.s) > 0
  THEN IF RawWriteStatus(x.raw, x.ok) # "OK"
       THEN [x EXCEPT !.st = RawWriteStatus(x.raw, x.ok), !.writes = @ + 1,
                      !.late = @ + Late(x), !.log = Append(@, "write")]
       ELSE [x EXCEPT !.raw = RawWrite(x.raw, x.s.compressed_, x.ok),
                      !.s.compressed_ = <<>>, !.writes = @ + 1, !.late = @ + Late(x),
                      !.log = Append(@, "write")]
  ELSE x

\* One call of the compressor from Write (compressed.cc:83-85, 93-95): its
\* output r lands in the buffer.
WriteCompressed(x, r) ==
  [x EXCEPT !.st = r.st, !.s.compressor_ = r.c, !.s.compressed_ = @ \o r.output,
            !.compresses = @ + 1, !.bytes_read = r.bytes_read, !.late = @ + Late(x)]

WriteCompress(x, input) ==
  WriteCompressed(x, Compress(x.s.compressor_, input, x.s.size - compressed_pos_(x.s),
                              x.s.hold, x.s.room))

\* compressed.cc:87-97: nothing consumed, so flush the buffer and try again.
WriteRetryCompress(x, input) == IF x.st # "OK" THEN x ELSE WriteCompress(x, input)

WriteRetry(x, input) ==
  IF x.st = "OK" /\ x.bytes_read = 0 /\ compressed_pos_(x.s) > 0
  THEN WriteRetryCompress(FlushCompressed(x), input)
  ELSE x

\* compressed.cc:98-104: account for the bytes consumed, flush a full buffer.
WriteFlushFull(x) ==
  IF compressed_pos_(x.s) = x.s.size THEN FlushCompressed(x) ELSE x

WriteAdvance(x) ==
  IF x.st # "OK" THEN x
  ELSE WriteFlushFull([x EXCEPT !.s.total_pos_ = @ + x.bytes_read])

\* The buffer size after an iteration that never grows the buffer.
WriteGrow_Never(s, bytes_read) == s.size
\* compressed.cc:105-108: the buffer size after an iteration.
WriteGrow(s, bytes_read) == IF bytes_read = 0 THEN s.size * 2 ELSE s.size

WriteGrowStep(x) ==
  IF x.st # "OK" THEN x ELSE [x EXCEPT !.s.size = WriteGrow(x.s, x.bytes_read)]

\* One iteration of the loop of Write (compressed.cc:78-109)
WriteIteration(x, input) ==
  WriteGrowStep(WriteAdvance(WriteRetry(WriteCompress(x, input), input)))

\* CompressedOutputStream::Impl::Write (compressed.cc:74-111)
RECURSIVE WriteLoop(_, _)
WriteNext(x, input) ==
  IF x.st # "OK" THEN x ELSE WriteLoop(x, Drop(input, x.bytes_read))

WriteLoop(x, input) ==
  IF Len(input) = 0 \/ x.st # "OK" THEN x
  ELSE WriteNext(WriteIteration(x, input), input)

\* A drain whose output stays in the buffer.
Drained_Unwritten(x, r) ==
  IF r.st # "OK" THEN [x EXCEPT !.st = r.st]
  ELSE [x EXCEPT !.s.compressor_ = r.c, !.s.compressed_ = @ \o r.output]
\* One call of the compressor's Flush or End: its output r lands in the
\* buffer, and the buffer is written out.
Drained(x, r) ==
  IF r.st # "OK" THEN [x EXCEPT !.st = r.st]
  ELSE FlushCompressed([x EXCEPT !.s.compressor_ = r.c,
                                 !.s.compressed_ = @ \o r.output])

\* CompressedOutputStream::Impl::Flush (compressed.cc:113-137)
RECURSIVE FlushLoop(_)
FlushAgain(x, should_retry) ==
  IF x.st # "OK" \/ ~should_retry THEN x
  ELSE FlushLoop([x EXCEPT !.s.size = @ * 2])

FlushStep(x, r) ==
  FlushAgain(Drained([x EXCEPT !.flushes = @ + 1, !.late = @ + Late(x)], r),
             r.should_retry)

FlushLoop(x) ==
  FlushStep(x, CodecFlush(x.s.compressor_, x.s.size - compressed_pos_(x.s)))

\* CompressedOutputStream::Impl::FinalizeCompression (compressed.cc:139-161)
RECURSIVE FinalizeLoop(_)
FinalizeAgain(x, should_retry) ==
  IF x.st # "OK" \/ ~should_retry THEN x
  ELSE FinalizeLoop([x EXCEPT !.s.size = @ * 2])

FinalizeStep(x, r) ==
  FinalizeAgain(Drained([x EXCEPT !.ends = @ + 1, !.s.ends = @ + 1,
                                  !.late = @ + Late(x), !.log = Append(@, "End")], r),
                r.should_retry)

FinalizeLoop(x) ==
  FinalizeStep(x, CodecEnd(x.s.compressor_, x.s.size - compressed_pos_(x.s)))

FinalizeCompression(x) == FinalizeLoop([x EXCEPT !.s.finalized = @ + 1])

\* The raw stream's Close and Abort: either can fail, and the stream is
\* closed afterwards either way.
RawClose(r) == [r EXCEPT !.closed = TRUE, !.closes = @ + 1]
RawAbort(r) == [r EXCEPT !.closed = TRUE, !.aborts = @ + 1]

\* What a call leaves behind in clast.
StreamCall(op, x, st, n) ==
  [op |-> op, st |-> st, n |-> n, data |-> <<>>, pos |-> x.s.total_pos_,
   compresses |-> x.compresses, flushes |-> x.flushes, ends |-> x.ends,
   writes |-> x.writes, closes |-> x.raw.closes - raw.closes,
   aborts |-> x.raw.aborts - raw.aborts, reads |-> 0,
   pre_open |-> co.is_open_, pre_raw |-> raw.data, pre_pos |-> co.total_pos_,
   late |-> x.late, log |-> x.log,
   life_ends |-> x.s.ends, life_finalized |-> x.s.finalized]

\* The plaintext the next Write of k bytes carries: the bytes of "abab..."
\* that follow those written so far.
WrittenSoFar == Len(Flat(cs.frames)) + Len(cs.cur)
NextData(k) == SubSeq(Pattern(WrittenSoFar + k), WrittenSoFar + 1, WrittenSoFar + k)

NoFiles == UNCHANGED <<osVars, mmVars, touched, thVars>>

\* A call on the output stream returns: x is the call, after its body.
OutputReturns(op, x, st, n, members, history) ==
  /\ co' = members
  /\ raw' = x.raw
  /\ cs' = [history EXCEPT !.broken = @ \/ st # "OK"]
  /\ clast' = StreamCall(op, x, st, n)
  /\ UNCHANGED ci
  /\ NoFiles

\* CompressedOutputStream::Make (compressed.cc:209-217) over a raw stream
\* opened for append on the bytes written so far.
CO_Make(hold, room) ==
  /\ ~co.made /\ ~ci.made /\ ~ci.gone
  /\ Len(cs.frames) < MaxFrames /\ ~cs.broken
  /\ co' = [NoOutputStream EXCEPT !.made = TRUE, !.is_open_ = TRUE,
                                  !.size = kChunkSize, !.compressor_ = NewCompressor,
                                  !.hold = hold, !.room = room]
  /\ raw' = [raw EXCEPT !.closed = FALSE, !.closes = 0, !.aborts = 0]
  /\ cs' = [cs EXCEPT !.cur = <<>>]
  /\ clast' = [NoStreamCall EXCEPT !.op = "Make"]
  /\ UNCHANGED ci
  /\ NoFiles

\* The plaintext an open stream has accepted, after a Write.
AfterWrite(x, data) ==
  IF co.is_open_
  THEN [cs EXCEPT !.cur = @ \o Take(data, x.s.total_pos_ - co.total_pos_)]
  ELSE cs

WriteReturns(x, k) == OutputReturns("Write", x, x.st, k, x.s, AfterWrite(x, NextData(k)))

\* CompressedOutputStream::Impl::Write (compressed.cc:74-111): k bytes of
\* plaintext; raw_ok tells whether the raw stream's writes succeed.
CO_Write(k, raw_ok) ==
  /\ co.made /\ ~ci.made
  /\ WrittenSoFar + k <= MaxPlain /\ co.total_pos_ + k <= MaxPlain
  /\ WriteReturns(WriteLoop(StartCall(co, raw, raw_ok), NextData(k)), k)

FlushReturns(x) == OutputReturns("Flush", x, x.st, 0, x.s, cs)

\* CompressedOutputStream::Impl::Flush (compressed.cc:113-137)
CO_Flush(raw_ok) ==
  /\ co.made /\ ~ci.made
  /\ FlushReturns(FlushLoop(StartCall(co, raw, raw_ok)))

\* CompressedOutputStream::Impl::Tell (compressed.cc:58-62)
CO_Tell ==
  /\ co.made /\ ~ci.made
  /\ clast' = StreamCall("Tell", StartCall(co, raw, TRUE), "OK", 0)
  /\ UNCHANGED <<co, ci, raw, cs>>
  /\ NoFiles

\* The flag after a Close that clears it only when everything succeeded.
CloseMarks_OnSuccess(st) == st # "OK"
\* compressed.cc:166-167: Close clears is_open_ before it finalizes, so the
\* flag is clear whatever the status.
CloseMarks(st) == FALSE

\* A Close that closes the raw stream whatever FinalizeCompression returned.
CloseRaw_Always(x, close_ok) ==
  [x EXCEPT !.raw = RawClose(@), !.log = Append(@, "close"),
            !.st = IF x.st # "OK" THEN @ ELSE IF close_ok THEN "OK" ELSE "IOError:close"]
\* compressed.cc:168-169: after FinalizeCompression, close the raw stream.
\* log lists what a call did to the stream, the codec and the raw stream, in
\* the order it did it.
CloseRaw(x, close_ok) ==
  IF x.st # "OK" THEN x
  ELSE [x EXCEPT !.raw = RawClose(@), !.log = Append(@, "close"),
                 !.st = IF close_ok THEN "OK" ELSE "IOError:close"]

CloseMarked(x) == [x EXCEPT !.s.is_open_ = CloseMarks(x.st)]

\* CompressedOutputStream::Impl::Close (compressed.cc:163-173): the call
\* after its body.
CloseBody(x, close_ok) ==
  IF x.s.is_open_
  THEN CloseMarked(CloseRaw(FinalizeCompression([x EXCEPT !.s.is_open_ = FALSE,
                                                          !.log = Append(@, "mark")]),
                            close_ok))
  ELSE x

\* What a Close means for the frames on the raw stream.
AfterClose(x) ==
  IF ~co.is_open_ THEN cs
  ELSE IF x.st = "OK" THEN [cs EXCEPT !.frames = Append(@, cs.cur), !.cur = <<>>]
  ELSE [cs EXCEPT !.broken = TRUE]

CloseReturns(x) == OutputReturns("Close", x, x.st, 0, x.s, AfterClose(x))

CO_Close(raw_ok, close_ok) ==
  /\ co.made /\ ~ci.made
  /\ CloseReturns(CloseBody(StartCall(co, raw, raw_ok), close_ok))

\* An Abort that drains the compressor as Close does.
AbortBody_Draining(x, abort_ok) == CloseBody(x, abort_ok)
\* CompressedOutputStream::Impl::Abort (compressed.cc:175-184)
AbortBody(x, abort_ok) ==
  IF x.s.is_open_
  THEN [x EXCEPT !.s.is_open_ = FALSE, !.raw = RawAbort(@),
                 !.st = IF abort_ok THEN "OK" ELSE "IOError:abort"]
  ELSE x

AfterAbort == IF co.is_open_ THEN [cs EXCEPT !.broken = TRUE] ELSE cs

AbortReturns(x) == OutputReturns("Abort", x, x.st, 0, x.s, AfterAbort)

CO_Abort(abort_ok) ==
  /\ co.made /\ ~ci.made
  /\ AbortReturns(AbortBody(StartCall(co, raw, TRUE), abort_ok))

\* internal::CloseFromDestructor (interfaces.cc:191-204): a failing close is
\* logged in release builds (NDEBUG) and fatal in debug builds.
DestructorStatus(st, ndebug) == IF st # "OK" /\ ~ndebug THEN "crash" ELSE st

DestructorReturns(x, ndebug) ==
  OutputReturns("Destructor", x, DestructorStatus(x.st, ndebug), 0, NoOutputStream,
                AfterClose(x))

\* ~CompressedOutputStream (compressed.cc:224). The object is gone afterwards.
CO_Destructor(raw_ok, close_ok, ndebug) ==
  /\ co.made /\ ~ci.made
  /\ DestructorReturns(CloseBody(StartCall(co, raw, raw_ok), close_ok), ndebug)

\* ================================================================== decompressor
\* A decompressor expects the "header" of a frame, then decodes its "body",
\* and is "finished" after the trailer. An eager one consumes input until it
\* meets a byte it has no output space for; one that is not eager returns as
\* soon as the output space is used up, without looking at the next input
\* byte. It writes nothing into an output space of less than `room` bytes.
\* A finished decompressor consumes nothing until it is reset.
NewDecompressor == [st |-> "header", q |-> <<>>]
IsFinished(d) == d.st = "finished"
Reset(d) == NewDecompressor

\* What Decompress returns when it stops in state st after i input bytes.
Stops(st, i, w, need, status) ==
  [st |-> status, d |-> [st |-> st, q |-> <<>>], bytes_read |-> i, output |-> w,
   need_more_output |-> need]

RECURSIVE Scan(_, _, _, _, _, _)
Scan(st, input, i, w, space, eager) ==
  IF st = "finished" \/ i = Len(input) THEN Stops(st, i, w, FALSE, "OK")
  ELSE IF ~eager /\ Len(w) >= space THEN Stops(st, i, w, TRUE, "OK")
  ELSE IF st = "header"
       THEN IF input[i + 1] = "H" THEN Scan("body", input, i + 1, w, space, eager)
            ELSE Stops(st, i, w, FALSE, "IOError:codec")
  ELSE IF input[i + 1] = "T" THEN Scan("finished", input, i + 1, w, space, eager)
  ELSE IF input[i + 1] = "H" THEN Stops(st, i, w, FALSE, "IOError:codec")
  ELSE IF Len(w) >= space THEN Stops(st, i, w, TRUE, "OK")
  ELSE Scan(st, input, i + 1, Append(w, Dec(input[i + 1])), space, eager)

Decompress(d, input, cap, eager, room) ==
  Scan(d.st, input, 0, <<>>, IF cap >= room THEN cap ELSE 0, eager)

\* ================================================================== CompressedInputStream
\* One call in progress: the stream's members s, the status so far, whether
\* raw reads succeed, the raw reads issued, the bytes copied out, and the
\* has_data of its last RefillDecompressed.
StartRead(s, ok) ==
  [s |-> s, st |-> "OK", ok |-> ok, reads |-> 0, data |-> <<>>, has_data |-> TRUE]

\* The raw InputStream's Read(kChunkSize): the next bytes, fewer at the end.
RawRead(pos) == Take(Drop(raw.data, pos), kInputChunkSize)

compressed_avail(s) ==
  IF s.compressed_.null THEN 0 ELSE Len(s.compressed_.data) - s.compressed_pos_

\* CompressedInputStream::Impl::EnsureCompressedData (compressed.cc:289-297)
EnsureCompressedData(y) ==
  IF compressed_avail(y.s) # 0 THEN y
  ELSE IF y.s.raw_closed THEN [y EXCEPT !.st = "Invalid:closed", !.reads = @ + 1]
  ELSE IF ~y.ok THEN [y EXCEPT !.st = "IOError:read", !.reads = @ + 1]
  ELSE [y EXCEPT !.s.compressed_ = Buf(RawRead(y.s.raw_pos)),
                 !.s.compressed_pos_ = 0,
                 !.s.raw_pos = @ + Len(RawRead(y.s.raw_pos)),
                 !.reads = @ + 1]

\* CompressedInputStream::Impl::DecompressData (compressed.cc:301-331),
\* from the allocation of a buffer of decompress_size bytes on. When the
\* codec fails, the freshly allocated buffer stays in place with its bytes
\* never written.
RECURSIVE DecompressLoop(_, _)
Decompressed(y, r, input_len, decompress_size) ==
  IF r.st # "OK"
  THEN [y EXCEPT !.st = r.st, !.s.decompressed_pos_ = 0,
                 !.s.decompressed_ = Buf([i \in 1..decompress_size |-> Uninit])]
  ELSE IF Len(r.output) > 0 \/ ~r.need_more_output \/ input_len = 0
  THEN [y EXCEPT !.s.decompressor_ = r.d,
                 !.s.compressed_pos_ = @ + r.bytes_read,
                 !.s.fresh_decompressor_ = IF r.bytes_read > 0 THEN FALSE ELSE @,
                 !.s.decompressed_pos_ = 0,
                 !.s.decompressed_ = Buf(r.output),
                 !.s.produced = @ \o r.output]
  ELSE DecompressLoop([y EXCEPT !.s.decompressor_ = r.d,
                                !.s.compressed_pos_ = @ + r.bytes_read,
                                !.s.fresh_decompressor_ =
                                    IF r.bytes_read > 0 THEN FALSE ELSE @],
                      decompress_size * 2)

DecompressLoop(y, decompress_size) ==
  Decompressed(y,
               Decompress(y.s.decompressor_,
                          Drop(y.s.compressed_.data, y.s.compressed_pos_),
                          decompress_size, y.s.eager, y.s.room),
               Len(y.s.compressed_.data) - y.s.compressed_pos_,
               decompress_size)

\* CompressedInputStream::Impl::ReadFromDecompressed (compressed.cc:334-349)
Readable(s) ==
  IF s.decompressed_.null THEN 0 ELSE Len(s.decompressed_.data) - s.decompressed_pos_

\* CompressedInputStream::Impl::DecompressData (compressed.cc:299-331).
\* produced collects the bytes the decompressor has written, and overwrote
\* records a call that replaced a buffer with bytes still to be read.
DecompressData(y) ==
  DecompressLoop([y EXCEPT !.s.overwrote = @ \/ Readable(y.s) > 0], kDecompressSize)

Copied_(y, read_bytes) ==
  [y EXCEPT !.data = @ \o SubSeq(y.s.decompressed_.data, y.s.decompressed_pos_ + 1,
                                 y.s.decompressed_pos_ + read_bytes),
            !.s.decompressed_pos_ = @ + read_bytes,
            !.s.decompressed_ =
                IF y.s.decompressed_pos_ + read_bytes = Len(y.s.decompressed_.data)
                THEN NullBuffer ELSE @]

ReadFromDecompressed(y, nbytes) ==
  IF Min(Readable(y.s), nbytes) > 0 THEN Copied_(y, Min(Readable(y.s), nbytes)) ELSE y

\* The end-of-input test of RefillDecompressed (compressed.cc:367).
Truncated(s) == ~s.fresh_decompressor_

\* compressed.cc:354-361: decompress from the chunk at hand, with a reset
\* decompressor if the last frame is finished.
RefillFromChunk(y) ==
  IF y.s.compressed_.null THEN y
  ELSE IF IsFinished(y.s.decompressor_)
  THEN DecompressData([y EXCEPT !.s.decompressor_ = Reset(@),
                                !.s.fresh_decompressor_ = TRUE])
  ELSE DecompressData(y)

\* compressed.cc:365-373: after EnsureCompressedData.
RefillFromRaw(y) ==
  IF y.st # "OK" THEN y
  ELSE IF y.s.compressed_pos_ = Len(y.s.compressed_.data)
  THEN IF Truncated(y.s)
       THEN [y EXCEPT !.st = "IOError:Truncated compressed stream"]
       ELSE [y EXCEPT !.has_data = FALSE]
  ELSE DecompressData(y)

\* compressed.cc:362-376
RefillIfEmpty(y) ==
  IF y.st # "OK" THEN y
  ELSE IF y.s.decompressed_.null \/ Len(y.s.decompressed_.data) = 0
  THEN RefillFromRaw(EnsureCompressedData(y))
  ELSE y

\* CompressedInputStream::Impl::RefillDecompressed (compressed.cc:352-377)
RefillDecompressed(y) == RefillIfEmpty(RefillFromChunk([y EXCEPT !.has_data = TRUE]))

\* The loop of CompressedInputStream::Impl::Read (compressed.cc:385-395)
RECURSIVE ReadLoop(_, _)
ReadMore(y, nbytes) ==
  IF nbytes = Len(y.data) THEN y ELSE ReadLoop(RefillDecompressed(y), nbytes)

ReadLoop(y, nbytes) ==
  IF y.st # "OK" \/ ~(nbytes - Len(y.data) > 0 /\ y.has_data) THEN y
  ELSE ReadMore(ReadFromDecompressed(y, nbytes - Len(y.data)), nbytes)

\* compressed.cc:397-399: an error return leaves total_pos_ and *bytes_read
\* alone.
ReadDone(y) ==
  IF y.st # "OK" THEN [y EXCEPT !.data = <<>>]
  ELSE [y EXCEPT !.s.total_pos_ = @ + Len(y.data)]

\* CompressedInputStream::Impl::Read (compressed.cc:379-400)
ReadBody(s, nbytes, raw_ok) == ReadDone(ReadLoop(StartRead(s, raw_ok), nbytes))

\* What a call on the input stream leaves behind in clast.
InputCall(op, y, st, n) ==
  [NoStreamCall EXCEPT !.op = op, !.st = st, !.n = n, !.data = y.data,
                       !.pos = y.s.total_pos_, !.reads = y.reads,
                       !.closes = y.s.raw_closes - ci.raw_closes,
                       !.pre_open = ci.is_open_, !.pre_raw = raw.data]

\* How the calls on the input stream went, after one that returned st.
EnvFailures == {"IOError:read", "Invalid:closed", "IOError:close", "IOError:abort", "crash"}
ReadsAfter(before, st) ==
  IF before # "ok" \/ st = "OK" THEN before
  ELSE IF st \in EnvFailures THEN "env" ELSE "err"

\* A call on the input stream returns: y is the call, after its body.
InputReturns(op, y, st, n, members) ==
  /\ ci' = members
  /\ cs' = [cs EXCEPT !.got = @ \o y.data, !.reads = ReadsAfter(@, st)]
  /\ clast' = InputCall(op, y, st, n)
  /\ UNCHANGED <<co, raw>>
  /\ NoFiles

\* CompressedInputStream::Make (compressed.cc:441-450) over a raw stream that
\* reads the bytes the output streams left behind.
CI_Make(eager, room) ==
  /\ ~co.made /\ ~ci.made /\ ~ci.gone
  /\ ci' = [NoInputStream EXCEPT !.made = TRUE, !.is_open_ = TRUE,
                                 !.decompressor_ = NewDecompressor,
                                 !.fresh_decompressor_ = TRUE,
                                 !.eager = eager, !.room = room]
  /\ clast' = [NoStreamCall EXCEPT !.op = "MakeInput", !.pre_raw = raw.data]
  /\ UNCHANGED <<co, raw, cs>>
  /\ NoFiles

ReadReturns(y, nbytes) == InputReturns("Read", y, y.st, nbytes, y.s)

\* CompressedInputStream::Impl::Read (compressed.cc:379-410)
CI_Read(nbytes, raw_ok) ==
  /\ ci.made
  /\ ReadReturns(ReadBody(ci, nbytes, raw_ok), nbytes)

\* CompressedInputStream::Impl::Tell (compressed.cc:283-287)
CI_Tell ==
  /\ ci.made
  /\ InputReturns("TellInput", StartRead(ci, TRUE), "OK", 0, ci)

\* CompressedInputStream::Impl::Close (compressed.cc:263-270) and Abort
\* (compressed.cc:272-279): the call after its body.
InputClose(y, ok, failure) ==
  IF y.s.is_open_
  THEN [y EXCEPT !.s.is_open_ = FALSE, !.s.raw_closed = TRUE, !.s.raw_closes = @ + 1,
                 !.st = IF ok THEN "OK" ELSE failure]
  ELSE y

InputCloseReturns(op, y) == InputReturns(op, y, y.st, 0, y.s)

CI_Close(close_ok) ==
  /\ ci.made
  /\ InputCloseReturns("CloseInput", InputClose(StartRead(ci, TRUE), close_ok, "IOError:close"))

CI_Abort(abort_ok) ==
  /\ ci.made
  /\ InputCloseReturns("AbortInput", InputClose(StartRead(ci, TRUE), abort_ok, "IOError:abort"))

InputDestructorReturns(y, ndebug) ==
  InputReturns("DestructorInput", y, DestructorStatus(y.st, ndebug), 0,
               [NoInputStream EXCEPT !.gone = TRUE])

\* ~CompressedInputStream (compressed.cc:452)
CI_Destructor(close_ok, ndebug) ==
  /\ ci.made
  /\ InputDestructorReturns(InputClose(StartRead(ci, TRUE), close_ok, "IOError:close"),
                            ndebug)

\* ------------------------------------------------------------------ compressed stream spec
CSFileInit ==
  /\ fd_ = -1 /\ mode_ = "NONE" /\ is_open_ = FALSE /\ size_ = -1
  /\ need_seeking_ = FALSE
  /\ disk = <<>>
  /\ fd_offset = 0 /\ os_fd_open = FALSE /\ os_close_calls = 0
  /\ phase = "new"
  /\ last = NoCall /\ out = NoBuffer /\ hist = "fresh"

CSNext ==
  \/ \E hold \in 0..1, room \in 1..(kChunkSize + 1) : CO_Make(hold, room)
  \/ \E k \in 1..MaxPlain, raw_ok \in BOOLEAN : CO_Write(k, raw_ok)
  \/ \E raw_ok \in BOOLEAN : CO_Flush(raw_ok)
  \/ CO_Tell
  \/ \E raw_ok, close_ok \in BOOLEAN : CO_Close(raw_ok, close_ok)
  \/ \E abort_ok \in BOOLEAN : CO_Abort(abort_ok)
  \/ \E raw_ok, close_ok, ndebug \in BOOLEAN : CO_Destructor(raw_ok, close_ok, ndebug)
  \/ \E eager \in BOOLEAN, room \in 1..(kDecompressSize + 1) : CI_Make(eager, room)
  \/ \E n \in 0..MaxRead, raw_ok \in BOOLEAN : CI_Read(n, raw_ok)
  \/ CI_Tell
  \/ \E close_ok \in BOOLEAN : CI_Close(close_ok)
  \/ \E abort_ok \in BOOLEAN : CI_Abort(abort_ok)
  \/ \E close_ok, ndebug \in BOOLEAN : CI_Destructor(close_ok, ndebug)

\* No file, no memory map, no compressed stream and an empty raw stream.
InitCS == CSFileInit /\ MMInit /\ CSInit /\ OneThread

\* Compressed output streams writing frames to a raw stream, then a
\* compressed input stream reading them back.
SpecCS == InitCS /\ [][CSNext]_vars

\* ------------------------------------------------------------------ claims
ClosingOps == {"Close", "Destructor"}

\* A Close (or the destructor's close) on an output stream that is already
\* closed or aborted returns OK and calls neither the codec nor the raw stream.
RepeatedCloseIsNoOp ==
  (clast.op \in ClosingOps /\ ~clast.pre_open) =>
      /\ clast.st = "OK"
      /\ clast.compresses = 0 /\ clast.flushes = 0 /\ clast.ends = 0
      /\ clast.writes = 0 /\ clast.closes = 0 /\ clast.aborts = 0
      /\ raw.data = clast.pre_raw

\* Over the life of an output stream the raw stream is closed or aborted at
\* most once.
RawClosedOnce == raw.closes + raw.aborts <= 1

\* C19 as stated: a Close on a CompressedOutputStream that is already closed
\* or aborted returns OK without calling the codec, writing to the raw stream
\* or closing it; over any sequence of Close, Abort and destructor calls the
\* codec's End is invoked at most once and the raw stream is closed or
\* aborted at most once.
C19_EndInvokedOnce ==
  /\ RepeatedCloseIsNoOp
  /\ RawClosedOnce
  /\ co.ends <= 1 /\ clast.life_ends <= 1

\* C19 amended: as above, but what happens at most once is the finalization,
\* FinalizeCompression; within it End is invoked again for as long as the
\* codec asks for a retry, and no call other than the one Close or destructor
\* that finds the stream open invokes End.
C19_FinalizedOnce ==
  /\ RepeatedCloseIsNoOp
  /\ RawClosedOnce
  /\ co.finalized <= 1 /\ clast.life_finalized <= 1
  /\ (clast.ends > 0 => clast.op \in ClosingOps /\ clast.pre_open)

\* A second Close, after a Close whose finalization had to invoke End twice.
C19_Witness ==
  /\ clast.op = "Close" /\ ~clast.pre_open
  /\ co.made /\ co.finalized = 1 /\ co.ends = 2
  /\ raw.closes = 1

\* C20: Abort on an open CompressedOutputStream marks the stream closed and
\* aborts the raw stream without draining: it calls neither Flush nor End of
\* the codec and writes nothing to the raw stream, whose bytes are the same
\* after the Abort as before.
C20_AbortDoesNotDrain ==
  (clast.op = "Abort" /\ clast.pre_open) =>
      /\ ~co.is_open_
      /\ clast.aborts = 1 /\ clast.closes = 0
      /\ clast.flushes = 0 /\ clast.ends = 0 /\ clast.compresses = 0
      /\ clast.writes = 0
      /\ raw.data = clast.pre_raw

\* An Abort of an open stream whose buffer held compressed bytes.
C20_Witness ==
  /\ clast.op = "Abort" /\ clast.pre_open
  /\ Len(co.compressed_) > 0
  /\ raw.aborts = 1

\* ------------------------------------------------------------------ claims
\* Where a raw byte sequence ends: at a frame "boundary", "inside" a frame,
\* or after bytes that are no frames at all ("corrupt").
RECURSIVE EndOf(_, _, _)
EndOf(d, i, at) ==
  IF i = Len(d) \/ at = "corrupt" THEN at
  ELSE IF at = "boundary"
       THEN EndOf(d, i + 1, IF d[i + 1] = "H" THEN "inside" ELSE "corrupt")
  ELSE EndOf(d, i + 1, IF d[i + 1] = "T" THEN "boundary"
                       ELSE IF d[i + 1] = "H" THEN "corrupt" ELSE "inside")

RawEnd == EndOf(raw.data, 0, "boundary")

IsPrefix(p, q) == Len(p) <= Len(q) /\ SubSeq(q, 1, Len(p)) = p

\* The plaintext of the frames on the raw stream.
Plain == Flat(cs.frames)

\* An input stream reads frames that output streams wrote and closed without
\* any failure, and nothing but the stream itself has made a call on it fail.
ReadingFrames(k) ==
  /\ ci.made /\ ~cs.broken /\ cs.reads # "env"
  /\ Len(cs.frames) \in k

\* The last call was a Read that came back short: with an error or with fewer
\* bytes than it asked for.
ShortRead ==
  /\ clast.op = "Read"
  /\ clast.st # "OK" \/ Len(clast.data) < clast.n

\* What the reads of an input stream must have returned so far: no error,
\* the plaintext in order, and all of it once a Read has come back short.
ReadsBack ==
  /\ cs.reads = "ok"
  /\ IsPrefix(cs.got, Plain)
  /\ ShortRead => cs.got = Plain

\* C15: what is written through a CompressedOutputStream in any split into
\* Writes and Flushes and then closed is read back unchanged through a
\* CompressedInputStream with any sequence of Read sizes, and Reads after the
\* end return 0 bytes without error.
C15_RoundTrip == ReadingFrames({1}) => ReadsBack

\* One frame, written by a Write and a Close that succeeded, and a Read over
\* it that asks for more than the plaintext and fails.
C15_Witness ==
  /\ ReadingFrames({1}) /\ ShortRead /\ clast.st = "IOError:Truncated compressed stream"
  /\ raw.data = Frames(cs.frames) /\ Len(Plain) = MaxPlain /\ cs.got = <<>>

\* C16: the concatenation of two or more complete frames is read back as the
\* concatenation of their plaintexts followed by a clean end of stream,
\* wherever the frame boundary falls in the raw chunks and whatever the Read
\* sizes.
C16_Concatenated == ReadingFrames(2..MaxFrames) => ReadsBack

\* Two complete frames, the second of an empty plaintext, that one raw chunk
\* holds, read through a decompressor that consumes a frame's trailer as soon
\* as it is there: the Read at their end fails.
C16_Witness ==
  /\ ReadingFrames({2}) /\ ShortRead /\ ci.eager
  /\ clast.st = "IOError:Truncated compressed stream"
  /\ raw.data = Frames(cs.frames) /\ cs.got = Plain
  /\ cs.frames[2] = <<>> /\ Len(raw.data) <= kInputChunkSize

\* C17: a Read that runs into the end of the raw stream fails with IOError
\* "Truncated compressed stream" when the raw stream ends inside a frame, and
\* reports a clean end of stream (fewer bytes than requested, status OK)
\* when the raw stream is empty or ends at a frame boundary. (A Read that
\* fails because the raw stream's read fails is not such a Read.)
C17_EndOfInput ==
  (/\ ci.made /\ ShortRead /\ clast.pre_open
   /\ clast.st \notin EnvFailures /\ RawEnd # "corrupt") =>
      clast.st = (IF RawEnd = "boundary" THEN "OK"
                  ELSE "IOError:Truncated compressed stream")

\* A Read that fails with "Truncated compressed stream" although the raw
\* stream ends at a frame boundary.
C17_Witness ==
  /\ ci.made /\ cs.reads = "err" /\ ShortRead /\ clast.pre_open
  /\ RawEnd = "boundary" /\ raw.data # <<>>
  /\ IsFinished(ci.decompressor_) /\ ~ci.fresh_decompressor_
  /\ clast.st = "IOError:Truncated compressed stream"

\* The plaintext that was left before the last Read.
RemainingBefore == Len(Plain) - (Len(cs.got) - Len(clast.data))

\* C18: over a well-formed raw stream Read(n) returns exactly
\* min(n, remaining plaintext) bytes, so fewer than n only at the end of the
\* stream; and after successful Reads Tell is the number of bytes they
\* returned.
C18_ReadExact ==
  /\ (ReadingFrames(0..MaxFrames) /\ clast.op = "Read") =>
        /\ clast.st = "OK"
        /\ Len(clast.data) = Min(clast.n, RemainingBefore)
  /\ (ci.made /\ cs.reads = "ok") => ci.total_pos_ = Len(cs.got)
  /\ (ci.made /\ cs.reads = "ok" /\ clast.op = "TellInput") => clast.pos = Len(cs.got)

\* A Read of one byte at the end of a well-formed stream that fails instead
\* of returning no bytes.
C18_Witness ==
  /\ ReadingFrames(1..MaxFrames) /\ clast.op = "Read" /\ clast.n = 1
  /\ raw.data = Frames(cs.frames) /\ cs.got = Plain /\ RemainingBefore = 0
  /\ clast.st = "IOError:Truncated compressed stream"

\* C21: on a CompressedOutputStream that was closed or aborted, Write and
\* Flush fail and neither call the compressor nor write to the raw stream; on
\* a CompressedInputStream that was closed or aborted, Read fails and does not
\* read from the raw stream.
C21_ClosedStreamRejects ==
  /\ (co.made /\ clast.op \in {"Write", "Flush"} /\ ~clast.pre_open) =>
        /\ clast.st # "OK"
        /\ clast.compresses = 0 /\ clast.flushes = 0 /\ clast.writes = 0
  /\ (ci.made /\ clast.op = "Read" /\ ~clast.pre_open) =>
        /\ clast.st # "OK"
        /\ clast.reads = 0

\* A Write on an aborted output stream that fed the compressor and returned
\* OK.
C21_Witness ==
  /\ co.made /\ clast.op = "Write" /\ ~clast.pre_open /\ clast.n > 0
  /\ clast.st = "OK" /\ clast.compresses > 0

\* ================================================================== threads
Threads == 1..MaxThreads

\* A thread outside any call. In a call: the operation, its position and
\* byte-count arguments, the length it computed, the position its bounds
\* check saw, and the status it is about to return.
Idle == [pc |-> "idle", op |-> "none", pos |-> 0, n |-> 0, len |-> 0, at |-> 0,
         st |-> "OK"]

\* Thread t is about to execute the step pc of its call, in a process that
\* is still alive.
Running(t, pc) == th[t].pc = pc /\ ~sh.crashed

Goes(t, pc) == th' = [th EXCEPT ![t].pc = pc]
Returns(t) == th' = [th EXCEPT ![t] = Idle]
Fails(t, st, pc) == th' = [th EXCEPT ![t].st = st, ![t].pc = pc]

\* std::mutex::lock and unlock; a guard's destructor unlocks what it holds.
Acquire(t, l) == mx[l] = 0 /\ mx' = [mx EXCEPT ![l] = t]
ReleaseAll(t) == mx' = [l \in DOMAIN mx |-> IF mx[l] = t THEN 0 ELSE mx[l]]

\* The steps of concurrent callers leave the single-caller objects alone.
NoSequential == UNCHANGED <<osVars, mmVars, touched, csVars>>

\* ================================================================== MemoryMappedFile, concurrent callers
\* One writable mapping of a whole file of MaxMap bytes. extents[id] is the
\* length of the extent of Region id while it is mapped and -1 once it is
\* unmapped or remapped; exports[id] counts the slices callers hold on it.
MMCInit ==
  /\ th = [t \in Threads |-> Idle]
  /\ mx = [write_lock |-> 0, resize_lock |-> 0]
  /\ sh = [map_len_ |-> MaxMap, position_ |-> 0, region_ |-> 1,
           extents |-> <<MaxMap>>, exports |-> <<0>>, calls |-> 0,
           crashed |-> FALSE, stale_read |-> FALSE, write_moved |-> FALSE,
           write_outside |-> FALSE]

\* The first step of each operation.
FirstStep(op) ==
  CASE op = "Resize" -> "lock_both"
    [] op \in {"ReadAt", "ReadAtBuffer"} -> "lock_resize"
    [] op = "Read" -> "read_position"
    [] op \in {"Write", "WriteAt"} -> "lock_write"
    [] op = "Seek" -> "seek"

\* A thread calls an operation of the MemoryMappedFile.
MC_Call(t, op, pos, n) ==
  /\ Running(t, "idle") /\ sh.calls < MaxCalls
  /\ th' = [th EXCEPT ![t] = [Idle EXCEPT !.pc = FirstStep(op), !.op = op,
                                          !.pos = pos, !.n = n]]
  /\ sh' = [sh EXCEPT !.calls = @ + 1]
  /\ UNCHANGED mx /\ NoSequential

\* file.cc:734-736: std::lock(write_guard, resize_guard) returns owning both.
BothLocks_WriteOnly(t) == [write_lock |-> t, resize_lock |-> 0]
BothLocks(t) == [write_lock |-> t, resize_lock |-> t]

MC_LockBoth(t) ==
  /\ Running(t, "lock_both")
  /\ mx.write_lock = 0 /\ mx.resize_lock = 0
  /\ mx' = BothLocks(t)
  /\ Goes(t, "resize_checks")
  /\ UNCHANGED sh /\ NoSequential

\* MemoryMap::Resize, file.cc:469-479: the mapping is writable and whole;
\* region_.use_count() > 1 when a slice is exported.
MC_ResizeChecks(t) ==
  /\ Running(t, "resize_checks")
  /\ IF sh.region_ # 0 /\ sh.exports[sh.region_] > 0
     THEN Fails(t, "IOError:readers", "unlock")
     ELSE Goes(t, "resize_remap")
  /\ UNCHANGED <<mx, sh>> /\ NoSequential

Unmapped(extents, id) == IF id = 0 THEN extents ELSE [extents EXCEPT ![id] = -1]

\* file.cc:481-490: new_size == 0 drops the region, then truncates the file.
ResizedToZero(m, os_ok) ==
  IF m.map_len_ = 0 THEN [m EXCEPT !.position_ = 0]
  ELSE IF os_ok
  THEN [m EXCEPT !.extents = Unmapped(@, m.region_), !.region_ = 0,
                 !.map_len_ = 0, !.position_ = 0]
  ELSE [m EXCEPT !.extents = Unmapped(@, m.region_), !.region_ = 0]

\* A new Region of new_size bytes becomes region_ (file.cc:498-503, 581-584).
Mapped(m, extents, new_size) ==
  [m EXCEPT !.extents = Append(extents, new_size), !.exports = Append(@, 0),
            !.region_ = Len(extents) + 1, !.map_len_ = new_size,
            !.position_ = Min(@, new_size)]

\* file.cc:492-504: MemoryMapRemap of region_->data(), the old Region
\* detached; file.cc:505-510: InitMMap when nothing is mapped, whose
\* DCHECK_EQ(position_, 0) aborts a debug build.
Remapped(m, new_size, os_ok, ndebug) ==
  IF m.map_len_ > 0
  THEN IF m.region_ = 0 THEN [m EXCEPT !.crashed = TRUE]
       ELSE IF os_ok THEN Mapped(m, Unmapped(m.extents, m.region_), new_size)
       ELSE m
  ELSE IF ~ndebug /\ m.position_ # 0 THEN [m EXCEPT !.crashed = TRUE]
       ELSE IF os_ok THEN [Mapped(m, m.extents, new_size) EXCEPT !.position_ = m.position_]
       ELSE m

MC_ResizeRemap(t, os_ok, ndebug) ==
  /\ Running(t, "resize_remap")
  /\ sh' = IF th[t].n = 0 THEN ResizedToZero(sh, os_ok)
           ELSE Remapped(sh, th[t].n, os_ok, ndebug)
  /\ Goes(t, "unlock")
  /\ UNCHANGED mx /\ NoSequential

\* The guards of a call go out of scope and it returns; Read goes on to
\* advance the position (file.cc:684, 690).
MC_Unlock(t) ==
  /\ Running(t, "unlock")
  /\ ReleaseAll(t)
  /\ IF th[t].op = "Read" THEN Goes(t, "advance") ELSE Returns(t)
  /\ UNCHANGED sh /\ NoSequential

\* file.cc:683: Read takes the position before ReadAt takes the lock.
MC_ReadPosition(t) ==
  /\ Running(t, "read_position")
  /\ th' = [th EXCEPT ![t].pos = sh.position_, ![t].pc = "lock_resize"]
  /\ UNCHANGED <<mx, sh>> /\ NoSequential

\* file.cc:662-664, 671-673: a writable map's ReadAt takes the resize lock.
MC_LockResize(t) ==
  /\ Running(t, "lock_resize")
  /\ Acquire(t, "resize_lock")
  /\ Goes(t, "read_length")
  /\ UNCHANGED sh /\ NoSequential

\* file.cc:523, 674: the byte count clamped to the mapped length.
MC_ReadLength(t) ==
  /\ Running(t, "read_length")
  /\ th' = [th EXCEPT ![t].len = Max(0, Min(th[t].n, sh.map_len_ - th[t].pos)),
                      ![t].pc = "read_data"]
  /\ UNCHANGED <<mx, sh>> /\ NoSequential

\* The bytes [pos, pos + len) of region_ are mapped.
InExtent(m, pos, len) == m.region_ # 0 /\ pos + len <= m.extents[m.region_]

\* file.cc:525-528: SliceBuffer(region_, ...) exports a slice; file.cc:675-677:
\* memcpy from data() + position. Outside a mapped extent the access reads
\* whatever is there or faults.
ReadData(m, op, pos, len, faults) ==
  IF len = 0 THEN m
  ELSE IF ~InExtent(m, pos, len)
  THEN [m EXCEPT !.stale_read = TRUE, !.crashed = faults]
  ELSE IF op = "ReadAtBuffer" THEN [m EXCEPT !.exports[m.region_] = @ + 1]
  ELSE m

MC_ReadData(t, faults) ==
  /\ Running(t, "read_data")
  /\ sh' = ReadData(sh, th[t].op, th[t].pos, th[t].len, faults)
  /\ Goes(t, "unlock")
  /\ UNCHANGED mx /\ NoSequential

\* MemoryMap::advance after a Read (file.cc:684)
MC_Advance(t) ==
  /\ Running(t, "advance")
  /\ sh' = [sh EXCEPT !.position_ = @ + th[t].len]
  /\ Returns(t)
  /\ UNCHANGED mx /\ NoSequential

\* file.cc:697, 715: Write and WriteAt take the write lock.
MC_LockWrite(t) ==
  /\ Running(t, "lock_write")
  /\ Acquire(t, "write_lock")
  /\ Goes(t, IF th[t].op = "WriteAt" THEN "write_at" ELSE "write_checks")
  /\ UNCHANGED sh /\ NoSequential

\* file.cc:702-706: WriteAt checks its position and seeks to it.
MC_WriteAt(t) ==
  /\ Running(t, "write_at")
  /\ IF th[t].pos + th[t].n > sh.map_len_
     THEN Fails(t, "Invalid:pastend", "unlock") /\ UNCHANGED sh
     ELSE Goes(t, "write_checks") /\ sh' = [sh EXCEPT !.position_ = th[t].pos]
  /\ UNCHANGED mx /\ NoSequential

\* file.cc:707-709, 720-722: the bounds check at the current position.
MC_WriteChecks(t) ==
  /\ Running(t, "write_checks")
  /\ IF th[t].n + sh.position_ > sh.map_len_
     THEN Fails(t, "Invalid:pastend", "unlock")
     ELSE th' = [th EXCEPT ![t].at = sh.position_, ![t].pc = "write_copy"]
  /\ UNCHANGED <<mx, sh>> /\ NoSequential

\* file.cc:728: memcpy(memory_map_->head(), data, nbytes), at the position
\* of this moment.
WriteInternal_(m, at, n, faults) ==
  [m EXCEPT !.write_moved = @ \/ m.position_ # at,
            !.write_outside = @ \/ ~InExtent(m, m.position_, n),
            !.crashed = ~InExtent(m, m.position_, n) /\ faults]

MC_WriteCopy(t, faults) ==
  /\ Running(t, "write_copy")
  /\ sh' = WriteInternal_(sh, th[t].at, th[t].n, faults)
  /\ Goes(t, "write_advance")
  /\ UNCHANGED mx /\ NoSequential

\* file.cc:729: memory_map_->advance(nbytes)
MC_WriteAdvance(t) ==
  /\ Running(t, "write_advance")
  /\ sh' = [sh EXCEPT !.position_ = @ + th[t].n]
  /\ Goes(t, "unlock")
  /\ UNCHANGED mx /\ NoSequential

\* MemoryMappedFile::Seek (file.cc:652, 514-520), under no lock.
MC_Seek(t) ==
  /\ Running(t, "seek")
  /\ sh' = [sh EXCEPT !.position_ = th[t].pos]
  /\ Returns(t)
  /\ UNCHANGED mx /\ NoSequential

\* A caller drops a slice it holds.
MC_Release(id) ==
  /\ ~sh.crashed /\ id \in DOMAIN sh.exports /\ sh.exports[id] > 0
  /\ sh' = [sh EXCEPT !.exports[id] = @ - 1]
  /\ UNCHANGED <<th, mx>> /\ NoSequential

\* The steps of thread t inside a call.
MC_Step(t) ==
  \/ MC_LockBoth(t)
  \/ MC_ResizeChecks(t)
  \/ \E os_ok, ndebug \in BOOLEAN : MC_ResizeRemap(t, os_ok, ndebug)
  \/ MC_Unlock(t)
  \/ MC_ReadPosition(t)
  \/ MC_LockResize(t)
  \/ MC_ReadLength(t)
  \/ \E faults \in BOOLEAN : MC_ReadData(t, faults)
  \/ MC_Advance(t)
  \/ MC_LockWrite(t)
  \/ MC_WriteAt(t)
  \/ MC_WriteChecks(t)
  \/ \E faults \in BOOLEAN : MC_WriteCopy(t, faults)
  \/ MC_WriteAdvance(t)
  \/ MC_Seek(t)

MMCNext ==
  \/ \E t \in Threads, k \in 0..MaxMap : MC_Call(t, "Resize", 0, k)
  \/ \E t \in Threads, op \in {"ReadAt", "ReadAtBuffer"}, p \in 0..MaxPos :
        MC_Call(t, op, p, MaxMap)
  \/ \E t \in Threads, op \in {"Read", "Write"} : MC_Call(t, op, 0, MaxMap)
  \/ \E t \in Threads, p \in 0..MaxPos : MC_Call(t, "WriteAt", p, MaxMap)
  \/ \E t \in Threads, p \in 0..MaxPos : MC_Call(t, "Seek", p, 0)
  \/ \E t \in Threads : MC_Step(t)
  \/ \E id \in 1..MaxCalls : MC_Release(id)

InitMMC == CSFileInit /\ MMInit /\ CSInit /\ MMCInit

\* Threads calling one writable memory-mapped file.
SpecMMC == InitMMC /\ [][MMCNext]_vars

\* The same, where every thread inside a call keeps running.
FairSpecMMC == SpecMMC /\ \A t \in Threads : WF_vars(MC_Step(t))

\* ------------------------------------------------------------------ claims
\* The locks a thread owns at step pc of its call.
Holds(t, l) == mx[l] = t

\* Resize runs owning both locks, a read only the resize lock, a write only
\* the write lock.
LockDiscipline ==
  \A t \in Threads :
    /\ th[t].pc \in {"resize_checks", "resize_remap"} =>
          Holds(t, "write_lock") /\ Holds(t, "resize_lock")
    /\ th[t].pc \in {"read_length", "read_data"} =>
          Holds(t, "resize_lock") /\ ~Holds(t, "write_lock")
    /\ th[t].pc \in {"write_at", "write_checks", "write_copy", "write_advance"} =>
          Holds(t, "write_lock") /\ ~Holds(t, "resize_lock")

C23_ReadsMappedExtent ==
  /\ ~sh.stale_read
  /\ \A id \in DOMAIN sh.exports : sh.exports[id] > 0 => sh.extents[id] >= 0

\* A ReadAt has read through the region that a Resize(0) dropped before its
\* truncation failed.
C23_Witness ==
  /\ sh.stale_read /\ sh.region_ = 0 /\ sh.map_len_ > 0
  /\ \E t \in Threads : th[t].op \in {"ReadAt", "ReadAtBuffer"} /\ th[t].pc = "unlock"

\* C24: the write lock serializes writers and the position they use: a write
\* copies its bytes at the position its bounds check saw, inside [0, Size()).
C24_WritesAtCheckedPosition == ~sh.write_moved /\ ~sh.write_outside

\* A Write has copied its bytes past the end of the mapping, at a position
\* that a Seek set after the Write's bounds check.
C24_Witness ==
  /\ sh.write_moved /\ sh.write_outside /\ sh.region_ # 0
  /\ \E t \in Threads : th[t].op = "Write" /\ th[t].pc = "write_advance"
                        /\ sh.position_ + th[t].n > sh.map_len_

\* ================================================================== OSFile::Write, concurrent callers
\* One FileOutputStream open for writing: the OSFile members the writers
\* share, the bytes the descriptor has received, each byte named after the
\* thread that wrote it, and whether a byte ever landed inside the bytes of
\* another thread's unfinished write. fd_ is the descriptor the handle holds,
\* os_fd_open whether the operating system still has it open, and
\* wrote_released whether an OS write was ever issued on a descriptor that
\* was released or on -1. due counts the ReadAt calls that have returned,
\* sought is the largest value due had when a Seek that succeeded was issued,
\* and bad_read whether a Read succeeded that started after a ReadAt returned
\* which no successful Seek was issued after.
OSCInit ==
  /\ th = [t \in Threads |-> Idle]
  /\ mx = [lock_ |-> 0]
  /\ sh = [is_open_ |-> TRUE, need_seeking_ |-> FALSE, fd_ |-> 3, os_fd_open |-> TRUE,
           disk |-> <<>>, calls |-> 0, crashed |-> FALSE, interleaved |-> FALSE,
           wrote_released |-> FALSE, due |-> 0, sought |-> 0, bad_read |-> FALSE]

\* A thread calls Write(data, length).
OW_Call(t, length) ==
  /\ Running(t, "idle") /\ sh.calls < MaxCalls
  /\ th' = [th EXCEPT ![t] = [Idle EXCEPT !.pc = "check_closed", !.op = "Write",
                                          !.n = length]]
  /\ sh' = [sh EXCEPT !.calls = @ + 1]
  /\ UNCHANGED mx /\ NoSequential

\* file.cc:171: RETURN_NOT_OK(CheckClosed()), before the lock is taken.
OW_CheckClosed(t) ==
  /\ Running(t, "check_closed")
  /\ IF sh.is_open_ THEN Goes(t, "lock") ELSE Fails(t, "Invalid:closed", "return")
  /\ UNCHANGED <<mx, sh>> /\ NoSequential

\* A writer that goes on without owning the mutex.
OW_Lock_NoWait(t) ==
  /\ Running(t, "lock")
  /\ Goes(t, "checks")
  /\ UNCHANGED <<mx, sh>> /\ NoSequential
\* file.cc:173: std::lock_guard<std::mutex> guard(lock_)
OW_Lock(t) ==
  /\ Running(t, "lock")
  /\ Acquire(t, "lock_")
  /\ Goes(t, "checks")
  /\ UNCHANGED sh /\ NoSequential

\* file.cc:174-177: CheckPositioned and the test of the length.
OW_Checks(t) ==
  /\ Running(t, "checks")
  /\ IF sh.need_seeking_ THEN Fails(t, "Invalid:needseek", "return")
     ELSE IF th[t].n < 0 THEN Fails(t, "IOError:length", "return")
     ELSE th' = [th EXCEPT ![t].pc = "file_write", ![t].at = sh.fd_]
  /\ UNCHANGED <<mx, sh>> /\ NoSequential

\* The threads whose FileWrite has put some but not all of its bytes.
Unfinished == {u \in Threads : th[u].pc = "file_write" /\ th[u].len > 0}

\* file.cc:178-179: ::arrow::internal::FileWrite(fd_, ...), which hands the
\* bytes to the descriptor it was given piece by piece, here byte by byte,
\* and stops at the first piece the OS refuses. The OS refuses a write on -1
\* or on a descriptor that was closed.
OW_FileWrite(t, os_ok) ==
  /\ Running(t, "file_write")
  /\ IF th[t].len = th[t].n THEN Goes(t, "return") /\ UNCHANGED sh
     ELSE IF th[t].at = -1 \/ ~sh.os_fd_open
     THEN /\ Fails(t, "IOError:os", "return")
          /\ sh' = [sh EXCEPT !.wrote_released = TRUE]
     ELSE IF ~os_ok THEN Fails(t, "IOError:os", "return") /\ UNCHANGED sh
     ELSE /\ th' = [th EXCEPT ![t].len = @ + 1]
          /\ sh' = [sh EXCEPT !.disk = Append(@, t),
                              !.interleaved = @ \/ Unfinished \ {t} # {}]
  /\ UNCHANGED mx /\ NoSequential

\* The guard goes out of scope and Write returns.
OW_Return(t) ==
  /\ Running(t, "return")
  /\ ReleaseAll(t)
  /\ Returns(t)
  /\ UNCHANGED sh /\ NoSequential

OSCNext ==
  \/ \E t \in Threads, length \in -1..MaxN : OW_Call(t, length)
  \/ \E t \in Threads : OW_CheckClosed(t)
  \/ \E t \in Threads : OW_Lock(t)
  \/ \E t \in Threads : OW_Checks(t)
  \/ \E t \in Threads, os_ok \in BOOLEAN : OW_FileWrite(t, os_ok)
  \/ \E t \in Threads : OW_Return(t)

InitOSC == CSFileInit /\ MMInit /\ CSInit /\ OSCInit

\* Threads writing to one FileOutputStream.
SpecOSC == InitOSC /\ [][OSCNext]_vars

\* ------------------------------------------------------------------ claims
\* C25: of the threads calling Write on one OS file handle at most one is
\* inside the OS write on the descriptor, so no byte of one Write lands
\* between the bytes of another.
C25_WritesSerialized ==
  /\ Cardinality({t \in Threads : th[t].pc = "file_write"}) <= 1
  /\ ~sh.interleaved

\* One thread is in the middle of its OS write while another waits for the
\* lock, after a Write of another thread went to the descriptor whole.
C25_Witness ==
  \E t, u \in Threads :
    /\ t # u /\ th[t].pc = "file_write" /\ th[t].len = 1 /\ th[t].n = MaxN
    /\ th[u].pc = "lock" /\ mx.lock_ = t
    /\ Len(sh.disk) > MaxN /\ sh.disk[1] = u

\* ================================================================== RandomAccessFile::ReadAt, concurrent callers
\* A RandomAccessFile that does not override ReadAt, over a file whose Seek
\* sets the position that Read reads at and advances (the stream interface
\* contract). The mutex is RandomAccessFileImpl::lock_ (interfaces.cc:90-92).
RACInit ==
  /\ th = [t \in Threads |-> Idle]
  /\ mx = [lock_ |-> 0]
  /\ sh = [position |-> 0, size |-> MaxFile + MaxPos, calls |-> 0, crashed |-> FALSE]

\* A thread calls ReadAt(position, nbytes, ...), either overload.
RA_Call(t, op, position, nbytes) ==
  /\ Running(t, "idle") /\ sh.calls < MaxCalls
  /\ th' = [th EXCEPT ![t] = [Idle EXCEPT !.pc = "lock", !.op = op,
                                          !.pos = position, !.n = nbytes, !.at = -1]]
  /\ sh' = [sh EXCEPT !.calls = @ + 1]
  /\ UNCHANGED mx /\ NoSequential

\* A ReadAt that goes on without owning the mutex.
RA_Lock_NoWait(t) ==
  /\ Running(t, "lock")
  /\ Goes(t, "seek")
  /\ UNCHANGED <<mx, sh>> /\ NoSequential
\* interfaces.cc:99, 106: std::lock_guard<std::mutex> lock(interface_impl_->lock_)
RA_Lock(t) ==
  /\ Running(t, "lock")
  /\ Acquire(t, "lock_")
  /\ Goes(t, "seek")
  /\ UNCHANGED sh /\ NoSequential

\* interfaces.cc:100, 107: RETURN_NOT_OK(Seek(position))
RA_Seek(t, seek_ok) ==
  /\ Running(t, "seek")
  /\ IF seek_ok /\ th[t].pos >= 0
     THEN Goes(t, "read") /\ sh' = [sh EXCEPT !.position = th[t].pos]
     ELSE Fails(t, "IOError:seek", "return") /\ UNCHANGED sh
  /\ UNCHANGED mx /\ NoSequential

\* interfaces.cc:101, 108: return Read(nbytes, ...): the bytes at the file's
\* position, which moves past them.
RA_Read(t) ==
  /\ Running(t, "read")
  /\ th' = [th EXCEPT ![t].at = sh.position,
                      ![t].len = Max(0, Min(th[t].n, sh.size - sh.position)),
                      ![t].pc = "return"]
  /\ sh' = [sh EXCEPT !.position = @ + Max(0, Min(th[t].n, sh.size - sh.position))]
  /\ UNCHANGED mx /\ NoSequential

\* The guard goes out of scope and ReadAt returns. The caller keeps what the
\* call returned until it calls again.
RA_Return(t) ==
  /\ Running(t, "return")
  /\ ReleaseAll(t)
  /\ Goes(t, "idle")
  /\ UNCHANGED sh /\ NoSequential

RACNext ==
  \/ \E t \in Threads, op \in {"ReadAt", "ReadAtBuffer"}, p \in 0..MaxPos, n \in 1..MaxN :
        RA_Call(t, op, p, n)
  \/ \E t \in Threads : RA_Lock(t)
  \/ \E t \in Threads, seek_ok \in BOOLEAN : RA_Seek(t, seek_ok)
  \/ \E t \in Threads : RA_Read(t)
  \/ \E t \in Threads : RA_Return(t)

InitRAC == CSFileInit /\ MMInit /\ CSInit /\ RACInit

\* Threads calling the default ReadAt of one RandomAccessFile.
SpecRAC == InitRAC /\ [][RACNext]_vars

\* ------------------------------------------------------------------ claims
\* C26: the Seek and the Read of a default ReadAt are one atomic pair among
\* the default ReadAt calls on a file: every call that reads returns the
\* bytes at the position it asked for, min(nbytes, size - position) of them.
C26_ReadAtOwnPosition ==
  \A t \in Threads :
    (th[t].op \in {"ReadAt", "ReadAtBuffer"} /\ th[t].at >= 0) =>
        /\ th[t].at = th[t].pos
        /\ th[t].len = Min(th[t].n, sh.size - th[t].pos)

\* A ReadAt has read at its own position while another ReadAt, for another
\* position, waits for the lock; the file's position was left elsewhere by
\* an earlier call.
C26_Witness ==
  \E t, u \in Threads :
    /\ th[t].pc = "return" /\ th[t].at = th[t].pos /\ th[t].len > 0 /\ mx.lock_ = t
    /\ th[u].pc = "lock" /\ th[u].pos # th[t].pos
    /\ sh.calls = MaxCalls

\* ================================================================== CompressedOutputStream, concurrent callers
\* One open CompressedOutputStream over an empty raw stream, called by
\* several threads. s and raw are the stream's members and its raw stream;
\* view[t] is what thread t's operation body read when it began; seq is the
\* stream and raw stream that result from running the bodies one after the
\* other, each as a whole, in the order in which they finished.
OpenOutputStream(hold, room) ==
  [NoOutputStream EXCEPT !.made = TRUE, !.is_open_ = TRUE, !.size = kChunkSize,
                         !.compressor_ = NewCompressor, !.hold = hold, !.room = room]
OpenRaw == [data |-> <<>>, closed |-> FALSE, closes |-> 0, aborts |-> 0]

COCInit ==
  /\ th = [t \in Threads |-> Idle]
  /\ mx = [lock_ |-> 0]
  /\ \E hold \in 0..1, room \in 1..(kChunkSize + 1) :
        sh = [s |-> OpenOutputStream(hold, room), raw |-> OpenRaw,
              seq |-> [s |-> OpenOutputStream(hold, room), raw |-> OpenRaw],
              view |-> [t \in Threads |-> [s |-> NoOutputStream, raw |-> OpenRaw]],
              calls |-> 0, crashed |-> FALSE]

OutputOps == {"Write", "Flush", "Close", "Abort", "Tell"}

\* The plaintext of thread t's Write of k bytes.
ThreadData(t, k) == [i \in 1..k |-> IF t % 2 = 1 THEN "a" ELSE "b"]

\* A thread calls Write(data, nbytes), Flush, Close, Abort or Tell.
OC_Call(t, op, nbytes) ==
  /\ Running(t, "idle") /\ sh.calls < MaxCalls
  /\ op = "Write" \/ nbytes = 0
  /\ th' = [th EXCEPT ![t] = [Idle EXCEPT !.pc = "lock", !.op = op, !.n = nbytes,
                                          !.at = -1]]
  /\ sh' = [sh EXCEPT !.calls = @ + 1]
  /\ UNCHANGED mx /\ NoSequential

\* An operation that goes on without owning the mutex.
OC_Lock_NoWait(t) ==
  /\ Running(t, "lock")
  /\ Goes(t, "begin")
  /\ UNCHANGED <<mx, sh>> /\ NoSequential
\* compressed.cc:59, 75, 114, 164, 176: std::lock_guard<std::mutex> guard(lock_)
OC_Lock(t) ==
  /\ Running(t, "lock")
  /\ Acquire(t, "lock_")
  /\ Goes(t, "begin")
  /\ UNCHANGED sh /\ NoSequential

\* The body begins: it works on the members as it finds them.
OC_Begin(t) ==
  /\ Running(t, "begin")
  /\ Goes(t, "body")
  /\ sh' = [sh EXCEPT !.view[t] = [s |-> sh.s, raw |-> sh.raw]]
  /\ UNCHANGED mx /\ NoSequential

\* The bodies of Write (compressed.cc:76-110), Flush (115-136), Close
\* (165-172), Abort (177-183) and Tell (60-61) on the call x.
OutputBody(op, x, data, end_ok) ==
  CASE op = "Write" -> WriteLoop(x, data)
    [] op = "Flush" -> FlushLoop(x)
    [] op = "Close" -> CloseBody(x, end_ok)
    [] op = "Abort" -> AbortBody(x, end_ok)
    [] OTHER -> x

OutputDone(t, x, y) ==
  /\ th' = [th EXCEPT ![t].pc = "return", ![t].st = x.st,
                      ![t].at = IF th[t].op = "Tell" THEN x.s.total_pos_ ELSE -1]
  /\ sh' = [sh EXCEPT !.s = x.s, !.raw = x.raw, !.seq = [s |-> y.s, raw |-> y.raw]]

\* The body ends: the members and the raw stream are as the body left them.
OC_Body(t, raw_ok, end_ok) ==
  /\ Running(t, "body")
  /\ OutputDone(t,
       OutputBody(th[t].op, StartCall(sh.view[t].s, sh.view[t].raw, raw_ok),
                  ThreadData(t, th[t].n), end_ok),
       OutputBody(th[t].op, StartCall(sh.seq.s, sh.seq.raw, raw_ok),
                  ThreadData(t, th[t].n), end_ok))
  /\ UNCHANGED mx /\ NoSequential

\* The guard goes out of scope and the call returns. The caller keeps what
\* the call returned until it calls again.
OC_Return(t) ==
  /\ Running(t, "return")
  /\ ReleaseAll(t)
  /\ Goes(t, "idle")
  /\ UNCHANGED sh /\ NoSequential

COCNext ==
  \/ \E t \in Threads, op \in OutputOps, k \in 0..MaxN : OC_Call(t, op, k)
  \/ \E t \in Threads : OC_Lock(t)
  \/ \E t \in Threads : OC_Begin(t)
  \/ \E t \in Threads, raw_ok, end_ok \in BOOLEAN : OC_Body(t, raw_ok, end_ok)
  \/ \E t \in Threads : OC_Return(t)

InitCOC == CSFileInit /\ MMInit /\ CSInit /\ COCInit

\* Threads calling Write, Flush, Close, Abort and Tell on one stream.
SpecCOC == InitCOC /\ [][COCNext]_vars

\* ------------------------------------------------------------------ claims
\* The number of plaintext bytes whose encoding is among the bytes q.
RECURSIVE Encoded(_)
Encoded(q) ==
  IF q = <<>> THEN 0
  ELSE (IF Head(q) \in {"A", "B"} THEN 1 ELSE 0) + Encoded(Tail(q))

\* The input bytes the compressor has consumed: their encodings are on the
\* raw stream, in the compressed buffer or still held by the compressor.
Consumed == Encoded(sh.raw.data) + Encoded(sh.s.compressed_) + Encoded(sh.s.compressor_.q)

InBody(t) == th[t].pc \in {"body", "return"}

\* C27: the bodies of Write, Flush, Close, Abort and Tell on one stream
\* exclude each other; the stream's members and the bytes on the raw stream
\* are those of the calls run one after the other in some order; and Tell
\* returns the number of input bytes the compressor has consumed.
C27_BodiesExclusive ==
  /\ Cardinality({t \in Threads : InBody(t)}) <= 1
  /\ sh.raw = sh.seq.raw /\ sh.s = sh.seq.s
  /\ sh.s.total_pos_ = Consumed
  /\ \A t \in Threads :
        (th[t].op = "Tell" /\ th[t].pc = "return") => th[t].at = Consumed

\* A Tell returns the bytes consumed by an earlier Write, some of them
\* already on the raw stream, while another thread's Write waits for the
\* lock the Tell holds.
C27_Witness ==
  \E t, u \in Threads :
    /\ th[t].op = "Tell" /\ th[t].pc = "return" /\ th[t].at > 0 /\ mx.lock_ = t
    /\ th[u].pc = "lock" /\ th[u].op = "Write" /\ u # t
    /\ Encoded(sh.raw.data) > 0

\* ================================================================== internal::SharedExclusiveChecker (debug build)
\* One checker called by several threads. holds lists the kinds of the holds
\* taken and not yet given back, in the order they were taken.
SXCInit ==
  /\ th = [t \in Threads |-> Idle]
  /\ mx = [mutex |-> 0]
  /\ sh = [n_shared |-> 0, n_exclusive |-> 0, holds |-> <<>>, calls |-> 0,
           crashed |-> FALSE]

CheckerOps == {"LockShared", "UnlockShared", "LockExclusive", "UnlockExclusive"}

\* A thread calls one of the four methods.
SX_Call(t, op) ==
  /\ Running(t, "idle") /\ sh.calls < MaxCalls
  /\ th' = [th EXCEPT ![t] = [Idle EXCEPT !.pc = "lock", !.op = op]]
  /\ sh' = [sh EXCEPT !.calls = @ + 1]
  /\ UNCHANGED mx /\ NoSequential

\* interfaces.cc:219, 228, 234, 243: std::lock_guard<std::mutex> lock(impl_->mutex)
SX_Lock(t) ==
  /\ Running(t, "lock")
  /\ Acquire(t, "mutex")
  /\ Goes(t, "body")
  /\ UNCHANGED sh /\ NoSequential

\* A LockExclusive that does not look at the shared holds.
CheckFails_SharedIgnored(op, m) ==
  CASE op = "LockShared" -> m.n_exclusive # 0
    [] op = "UnlockShared" -> ~(m.n_shared > 0)
    [] op = "LockExclusive" -> m.n_exclusive # 0
    [] OTHER -> m.n_exclusive # 1
\* The ARROW_CHECKs of the four methods (interfaces.cc:222, 229, 235-238, 244)
CheckFails(op, m) ==
  CASE op = "LockShared" -> m.n_exclusive # 0
    [] op = "UnlockShared" -> ~(m.n_shared > 0)
    [] op = "LockExclusive" -> m.n_shared # 0 \/ m.n_exclusive # 0
    [] OTHER -> m.n_exclusive # 1

\* The first hold of a kind leaves the list.
RECURSIVE Without(_, _)
Without(holds, kind) ==
  IF holds = <<>> THEN <<>>
  ELSE IF Head(holds) = kind THEN Tail(holds)
  ELSE <<Head(holds)>> \o Without(Tail(holds), kind)

\* interfaces.cc:224, 230, 239, 245: the counters after a method whose
\* checks passed.
Counted(op, m) ==
  CASE op = "LockShared" ->
         [m EXCEPT !.n_shared = @ + 1, !.holds = Append(@, "shared")]
    [] op = "UnlockShared" ->
         [m EXCEPT !.n_shared = @ - 1, !.holds = Without(@, "shared")]
    [] op = "LockExclusive" ->
         [m EXCEPT !.n_exclusive = @ + 1, !.holds = Append(@, "exclusive")]
    [] OTHER ->
         [m EXCEPT !.n_exclusive = @ - 1, !.holds = Without(@, "exclusive")]

\* The body of a method: a failing ARROW_CHECK aborts the process.
SX_Body(t) ==
  /\ Running(t, "body")
  /\ IF CheckFails(th[t].op, sh)
     THEN /\ sh' = [sh EXCEPT !.crashed = TRUE]
          /\ Fails(t, "abort", "aborted")
     ELSE /\ sh' = Counted(th[t].op, sh)
          /\ Goes(t, "return")
  /\ UNCHANGED mx /\ NoSequential

\* The guard goes out of scope and the method returns.
SX_Return(t) ==
  /\ Running(t, "return")
  /\ ReleaseAll(t)
  /\ Returns(t)
  /\ UNCHANGED sh /\ NoSequential

SXCNext ==
  \/ \E t \in Threads, op \in CheckerOps : SX_Call(t, op)
  \/ \E t \in Threads : SX_Lock(t)
  \/ \E t \in Threads : SX_Body(t)
  \/ \E t \in Threads : SX_Return(t)

InitSXC == CSFileInit /\ MMInit /\ CSInit /\ SXCInit

\* Threads calling the methods of one SharedExclusiveChecker, in any order.
SpecSXC == InitSXC /\ [][SXCNext]_vars

\* ------------------------------------------------------------------ claims
Held(kind) == \E i \in DOMAIN sh.holds : sh.holds[i] = kind

\* The calls the checker is there to catch.
Misuse(op) ==
  \/ op = "LockExclusive" /\ sh.holds # <<>>
  \/ op = "LockShared" /\ Held("exclusive")
  \/ op = "UnlockShared" /\ ~Held("shared")
  \/ op = "UnlockExclusive" /\ ~Held("exclusive")

CountersConsistent ==
  ~sh.crashed => /\ sh.n_exclusive <= 1
                 /\ ~(sh.n_shared > 0 /\ sh.n_exclusive > 0)

AbortsExactlyOnMisuse ==
  \A t \in Threads :
    (th[t].pc = "body" /\ th'[t].pc # "body") => (sh'.crashed <=> Misuse(th[t].op))

\* C28: in a debug build a method of the checker aborts exactly when it is
\* a LockExclusive while any hold is outstanding, a LockShared while an
\* exclusive hold is outstanding, or an unlock with no hold of its kind
\* outstanding (so a LockShared among shared holds is accepted); and until
\* an abort n_exclusive <= 1 and n_shared, n_exclusive are never both
\* positive.
C28_CheckerDetectsMisuse == []CountersConsistent /\ [][AbortsExactlyOnMisuse]_vars

\* Two shared holds were accepted at once, and the LockExclusive that came
\* next aborted the process.
C28_Witness ==
  /\ sh.crashed /\ sh.n_shared = 2 /\ sh.holds = <<"shared", "shared">>
  /\ \E t \in Threads : th[t].op = "LockExclusive" /\ th[t].pc = "aborted"

\* ================================================================== Region lifetime
\* ------------------------------------------------------------------ claims
\* The Region objects that still hold the address of an extent.
Owning == {id \in 1..MaxRegions : regions[id].state = "mapped"}

\* C29: every mapped extent is unmapped exactly once, and not while a slice
\* on it is alive: no munmap is ever issued for an extent that is not
\* mapped; the mapped extents are exactly those whose address a live Region
\* still holds, so each is unmapped by that Region's destructor and by no
\* other; a Region lives while the file or a slice holds it, so that after
\* Close the slices keep their extent mapped; and a Region detached by
\* Resize is gone with the call.
C29_UnmappedExactlyOnce ==
  /\ ~vm.stray
  /\ vm.mapped = Owning
  /\ \A id \in 1..MaxRegions :
        /\ regions[id].state # "free" => UseCountOf(id, region_, slices) > 0
        /\ regions[id].state # "detached"
  /\ \A i \in 1..Len(slices) : slices[i] \in vm.mapped
  /\ region_ # 0 => region_ \in vm.mapped

\* The file was closed while a slice was held: the slice's extent is still
\* mapped, and it is the only one.
C29_Witness ==
  /\ last.op = "Close" /\ last.st = "OK" /\ ~is_open_ /\ region_ = 0
  /\ Len(slices) = 1 /\ vm.mapped = {slices[1]}

\* A Resize has moved the mapping to a new Region and destroyed the old one:
\* one extent is mapped, the one the new Region holds.
C29_WitnessResize ==
  /\ last.op = "Resize" /\ last.st = "OK" /\ last.n > 0
  /\ region_ = 2 /\ vm.mapped = {2} /\ regions[1].state = "free"

\* ================================================================== progress of Write
\* ------------------------------------------------------------------ claims
\* The iteration that took the call from x to y made progress: it returned
\* an error, consumed input, or doubled the buffer.
IterationProgress(x, y) ==
  y.st = "OK" => (y.bytes_read > 0 \/ y.s.size = 2 * x.s.size)

\* Every iteration of the loop of Write on x and input makes progress; the
\* walk stops at the first one that does not.
RECURSIVE LoopProgress(_, _)
ProgressFrom(x, y, input) ==
  IF ~IterationProgress(x, y) THEN FALSE
  ELSE IF y.st # "OK" THEN TRUE
  ELSE LoopProgress(y, Drop(input, y.bytes_read))

LoopProgress(x, input) ==
  IF Len(input) = 0 \/ x.st # "OK" THEN TRUE
  ELSE ProgressFrom(x, WriteIteration(x, input), input)

\* C30: in whatever state the stream is, every iteration of a Write's loop
\* consumes at least one input byte or doubles the compressed buffer (or
\* returns the error of a failed call); and a Write(data, n) that returns OK
\* has consumed exactly n bytes, so that Tell is n more than before.
C30_WriteProgress ==
  /\ co.made =>
        \A k \in 1..MaxPlain, raw_ok \in BOOLEAN :
           LoopProgress(StartCall(co, raw, raw_ok), NextData(k))
  /\ (clast.op = "Write" /\ clast.st = "OK") => clast.pos = clast.pre_pos + clast.n

\* A Write of more than one byte returned OK on a stream whose compressor
\* wants more room than the initial buffer has: its first iteration consumed
\* nothing and doubled the buffer, a later one consumed the bytes.
C30_Witness ==
  /\ clast.op = "Write" /\ clast.st = "OK" /\ clast.n > 1
  /\ clast.pos = clast.pre_pos + clast.n
  /\ co.room > kChunkSize /\ co.size > kChunkSize
  /\ clast.compresses > 1

\* ================================================================== draining the compressor
\* ------------------------------------------------------------------ claims
\* The compressed bytes of the plaintext the streams have accepted so far:
\* the closed frames, and the header and body of the frame in progress.
ProducedSoFar == Frames(cs.frames) \o <<"H">> \o EncAll(cs.cur)

\* C31: a Flush of an open stream that returns OK leaves the compressed
\* buffer and the compressor empty, and the raw stream holds every
\* compressed byte produced so far, once and in production order; a Close
\* that returns OK leaves the raw stream holding the complete frames.
C31_FlushDrains ==
  /\ (co.made /\ clast.op = "Flush" /\ clast.st = "OK" /\ clast.pre_open) =>
        /\ co.compressed_ = <<>> /\ co.compressor_.q = <<>>
        /\ raw.data = ProducedSoFar
        /\ clast.flushes >= 1 /\ clast.ends = 0
  /\ (co.made /\ clast.op = "Close" /\ clast.st = "OK" /\ clast.pre_open) =>
        /\ co.compressed_ = <<>> /\ co.compressor_.q = <<>>
        /\ raw.data = Frames(cs.frames)
        /\ clast.ends >= 1

\* A Flush returned OK after Writes whose compressed bytes were partly in
\* the buffer and partly held by the compressor.
C31_Witness ==
  /\ co.made /\ clast.op = "Flush" /\ clast.st = "OK" /\ clast.pre_open
  /\ Len(cs.cur) = MaxPlain /\ co.hold > 0
  /\ Len(raw.data) > Len(clast.pre_raw) /\ clast.writes > 0

\* A Close had to ask the compressor to end twice, doubling the buffer in
\* between, and returned OK.
C31_WitnessRetry ==
  /\ co.made /\ clast.op = "Close" /\ clast.st = "OK" /\ clast.pre_open
  /\ clast.ends > 1 /\ co.size > kChunkSize

\* ================================================================== failures of the raw stream and the codec
\* ------------------------------------------------------------------ claims
\* The last call tried to write to the raw stream and the raw stream
\* refused: every raw write of the streams carries at least one byte.
RawWriteFailed == clast.writes > 0 /\ raw.data = clast.pre_raw

C33_DescriptorReleased ==
  /\ os_fd_open => is_open_
  /\ last.op \in {"Close", "Destructor"} => ~os_fd_open

\* OpenReadable got a descriptor and failed at the size query; the Close
\* that followed returned OK without closing it.
C33_Witness ==
  /\ last.op = "Close" /\ last.st = "OK" /\ ~last.pre_open
  /\ os_fd_open /\ fd_ = 3 /\ ~is_open_ /\ os_close_calls = 0

\* ================================================================== region and size
\* ------------------------------------------------------------------ claims
\* C34: while the file is open a Region exists exactly when Size() > 0, also
\* after a Resize that failed, so that no read of a positive length finds
\* the region missing.
C34_RegionIffSize ==
  (phase = "used" /\ is_open_) => (region_ # 0 <=> map_len_ > 0)

\* A Resize(0) whose truncate failed has dropped the region and kept the
\* size.
C34_Witness ==
  /\ phase = "used" /\ is_open_
  /\ last.op = "Resize" /\ last.n = 0 /\ last.st = "IOError:os"
  /\ region_ = 0 /\ map_len_ > 0 /\ vm.mapped = {}

\* C35: while the file is open and nothing is mapped (Size() = 0) the
\* position is 0, and so no Resize ends in the abort of the assertion on its
\* not-yet-mapped path.
C35_UnmappedAtZero ==
  /\ (phase = "used" /\ is_open_ /\ map_len_ = 0) => position_ = 0
  /\ last.op = "Resize" => last.st # "abort"

\* A Resize to a positive size, after a Seek on an empty file that is not
\* mapped yet, has aborted a debug build.
C35_Witness ==
  /\ phase = "aborted" /\ last.op = "Resize" /\ last.st = "abort" /\ last.n > 0
  /\ map_len_ = 0 /\ region_ = 0 /\ position_ > 0

\* ================================================================== failing writes
\* ------------------------------------------------------------------ claims
\* C36: a Write or WriteAt on a memory-mapped file that returns an error
\* changes nothing: the position, the size, the region and every byte of
\* the file are as before, and a failing WriteAt has not moved the position
\* to its argument.
C36_FailedWriteChangesNothing ==
  (last.op \in {"Write", "WriteAt"} /\ (IsInvalid(last.st) \/ IsIOError(last.st))) =>
     ~touched

\* A WriteAt past the end of a writable mapping failed, at a position other
\* than the one the file is at.
C36_Witness ==
  /\ last.op = "WriteAt" /\ last.st = "Invalid:pastend" /\ last.n > 0
  /\ is_open_ /\ Writable /\ map_len_ > 0
  /\ last.pos # position_ /\ ~touched

\* ---------------------------------------------------------------------------
\* Threads calling ReadAt, Seek, Read, Write and Close on one OSFile
\* (file.cc:125-180). None of Close, Read, ReadAt and Seek takes lock_;
\* need_seeking_ is a std::atomic<bool>, is_open_ and fd_ are plain members.
\* ---------------------------------------------------------------------------

FileCalls == {"ReadAt", "Seek", "Read", "Close"}

\* A thread enters Close, Read, ReadAt or Seek. A Read remembers in at how
\* many ReadAt calls had returned when it started, a Seek in len how many had
\* returned when it was issued.
OF_Call(t, op, pos) ==
  /\ Running(t, "idle") /\ sh.calls < MaxCalls
  /\ th' = [th EXCEPT ![t] = [Idle EXCEPT !.pc = "check_open", !.op = op, !.pos = pos,
                                          !.at = IF op = "Read" THEN sh.due ELSE 0,
                                          !.len = IF op = "Seek" THEN sh.due ELSE 0]]
  /\ sh' = [sh EXCEPT !.calls = @ + 1]
  /\ UNCHANGED mx /\ NoSequential

\* file.cc:144-151: OSFile::ReadAt. CheckClosed, then need_seeking_.store(true),
\* then FileReadAt, then the return.
OF_ReadAt(t, os_ok) ==
  /\ ~sh.crashed /\ th[t].op = "ReadAt"
  /\ CASE th[t].pc = "check_open" ->
            /\ IF sh.is_open_ THEN Goes(t, "store") ELSE Fails(t, "Invalid:closed", "return")
            /\ UNCHANGED sh
       [] th[t].pc = "store" ->
            /\ sh' = [sh EXCEPT !.need_seeking_ = TRUE]
            /\ Goes(t, "file_read_at")
       [] th[t].pc = "file_read_at" ->
            /\ IF os_ok THEN Goes(t, "readat_return")
               ELSE Fails(t, "IOError:os", "readat_return")
            /\ UNCHANGED sh
       [] th[t].pc = "readat_return" ->
            /\ sh' = [sh EXCEPT !.due = @ + 1]
            /\ Returns(t)
       [] OTHER -> FALSE
  /\ UNCHANGED mx /\ NoSequential

\* file.cc:153-163: OSFile::Seek. CheckClosed, the test of pos, FileSeek, and
\* need_seeking_.store(false) when FileSeek succeeded.
OF_Seek(t, os_ok) ==
  /\ ~sh.crashed /\ th[t].op = "Seek"
  /\ CASE th[t].pc = "check_open" ->
            /\ IF sh.is_open_ THEN Goes(t, "seek_check")
               ELSE Fails(t, "Invalid:closed", "return")
            /\ UNCHANGED sh
       [] th[t].pc = "seek_check" ->
            /\ IF th[t].pos < 0 THEN Fails(t, "Invalid:position", "return")
               ELSE Goes(t, "file_seek")
            /\ UNCHANGED sh
       [] th[t].pc = "file_seek" ->
            /\ IF os_ok THEN Goes(t, "seek_store") ELSE Fails(t, "IOError:os", "return")
            /\ UNCHANGED sh
       [] th[t].pc = "seek_store" ->
            /\ sh' = [sh EXCEPT !.need_seeking_ = FALSE,
                                !.sought = IF th[t].len > @ THEN th[t].len ELSE @]
            /\ Goes(t, "return")
       [] OTHER -> FALSE
  /\ UNCHANGED mx /\ NoSequential

\* file.cc:137-142 and 202-208: OSFile::Read. CheckClosed, CheckPositioned,
\* FileRead.
OF_Read(t, os_ok) ==
  /\ ~sh.crashed /\ th[t].op = "Read"
  /\ CASE th[t].pc = "check_open" ->
            /\ IF sh.is_open_ THEN Goes(t, "check_positioned")
               ELSE Fails(t, "Invalid:closed", "return")
            /\ UNCHANGED sh
       [] th[t].pc = "check_positioned" ->
            /\ IF sh.need_seeking_ THEN Fails(t, "Invalid:needseek", "return")
               ELSE Goes(t, "file_read")
            /\ UNCHANGED sh
       [] th[t].pc = "file_read" ->
            /\ IF os_ok
               THEN /\ Goes(t, "return")
                    /\ sh' = [sh EXCEPT !.bad_read = @ \/ th[t].at > sh.sought]
               ELSE Fails(t, "IOError:os", "return") /\ UNCHANGED sh
       [] OTHER -> FALSE
  /\ UNCHANGED mx /\ NoSequential

\* file.cc:125-135: OSFile::Close. The test of is_open_, is_open_ = false,
\* fd = fd_ and fd_ = -1, then FileClose(fd), which releases the descriptor.
OF_Close(t) ==
  /\ ~sh.crashed /\ th[t].op = "Close"
  /\ CASE th[t].pc = "check_open" ->
            /\ IF sh.is_open_ THEN Goes(t, "close_mark") ELSE Goes(t, "return")
            /\ UNCHANGED sh
       [] th[t].pc = "close_mark" ->
            /\ sh' = [sh EXCEPT !.is_open_ = FALSE]
            /\ Goes(t, "close_take")
       [] th[t].pc = "close_take" ->
            /\ th' = [th EXCEPT ![t].at = sh.fd_, ![t].pc = "file_close"]
            /\ sh' = [sh EXCEPT !.fd_ = -1]
       [] th[t].pc = "file_close" ->
            /\ IF th[t].at # -1 /\ sh.os_fd_open
               THEN sh' = [sh EXCEPT !.os_fd_open = FALSE] /\ Goes(t, "return")
               ELSE UNCHANGED sh /\ Fails(t, "IOError:os", "return")
       [] OTHER -> FALSE
  /\ UNCHANGED mx /\ NoSequential

OFCNext ==
  \/ \E t \in Threads, op \in FileCalls, pos \in -1..0 : OF_Call(t, op, pos)
  \/ \E t \in Threads, os_ok \in BOOLEAN : OF_ReadAt(t, os_ok)
  \/ \E t \in Threads, os_ok \in BOOLEAN : OF_Seek(t, os_ok)
  \/ \E t \in Threads, os_ok \in BOOLEAN : OF_Read(t, os_ok)
  \/ \E t \in Threads : OF_Close(t)
  \/ \E t \in Threads, length \in 0..1 : OW_Call(t, length)
  \/ \E t \in Threads : OW_CheckClosed(t)
  \/ \E t \in Threads : OW_Lock(t)
  \/ \E t \in Threads : OW_Checks(t)
  \/ \E t \in Threads, os_ok \in BOOLEAN : OW_FileWrite(t, os_ok)
  \/ \E t \in Threads : OW_Return(t)

\* Threads sharing one OSFile.
SpecOFC == InitOSC /\ [][OFCNext]_vars

\* C37: in every interleaving of ReadAt, Seek and Read calls by several
\* threads on one open handle, a Read that starts after a ReadAt has returned
\* succeeds only if a Seek that succeeded was issued after that ReadAt
\* returned, and need_seeking_ is set whenever the ReadAt that returned last
\* has not been followed by a Seek.
C37_ReadNeedsSeekAfterReadAt ==
  /\ ~sh.bad_read
  /\ (/\ sh.is_open_
      /\ sh.due > sh.sought
      /\ \A t \in Threads : ~(th[t].op = "Seek" /\ th[t].len >= sh.due))
     => sh.need_seeking_

\* A Read that started after a ReadAt had returned, with no Seek issued since,
\* has passed CheckPositioned and read the file.
C37_Witness ==
  /\ sh.bad_read /\ sh.is_open_ /\ sh.due = 1 /\ sh.sought = 0 /\ ~sh.need_seeking_
  /\ \E t \in Threads : th[t].op = "Read" /\ th[t].pc = "return" /\ th[t].st = "OK"
                        /\ th[t].at = 1

\* C38: in every interleaving of Close and Write on one handle no OS write is
\* issued on a descriptor that Close has released, nor through descriptor -1:
\* a Write either finishes its OS write before the descriptor is closed or
\* fails as Invalid without an OS write.
C38_NoWriteAfterRelease ==
  /\ ~sh.wrote_released
  /\ \A t \in Threads :
       (th[t].op = "Write" /\ th[t].pc = "return" /\ th[t].st = "Invalid:closed")
         => th[t].len = 0

\* A Write that passed CheckClosed before Close marked the handle has handed
\* its bytes to descriptor -1 or to the descriptor Close released.
C38_Witness ==
  /\ sh.wrote_released /\ ~sh.is_open_ /\ sh.fd_ = -1
  /\ \E t \in Threads : th[t].op = "Write" /\ th[t].pc = "return"
                        /\ th[t].st = "IOError:os" /\ th[t].n > 0 /\ th[t].len = 0

\* The decompressed bytes the input stream holds and has not handed out.
Unread(s) ==
  IF s.decompressed_.null THEN <<>>
  ELSE SubSeq(s.decompressed_.data, s.decompressed_pos_ + 1, Len(s.decompressed_.data))

\* C39: in a CompressedInputStream DecompressData is entered only when no
\* unread decompressed byte remains, decompressed_pos_ and compressed_pos_
\* stay between 0 and the size of their buffers, and every byte the
\* decompressor has written is handed to exactly one Read, in order, none
\* dropped and none twice, whatever the sizes of the Reads: the bytes the
\* Reads returned followed by the bytes still buffered are the bytes the
\* decompressor wrote.
C39_DecompressedDeliveredOnce ==
  ci.made =>
    /\ ~ci.overwrote
    /\ ~ci.decompressed_.null =>
          (0 <= ci.decompressed_pos_ /\ ci.decompressed_pos_ <= Len(ci.decompressed_.data))
    /\ ~ci.compressed_.null =>
          (0 <= ci.compressed_pos_ /\ ci.compressed_pos_ <= Len(ci.compressed_.data))
    /\ ci.produced = cs.got \o Unread(ci)

\* One complete frame read with a Read that asks for more than its plaintext:
\* the decompressor wrote the whole plaintext, the Read copied it and then
\* failed, and no Read has returned or will return these bytes.
C39_Witness ==
  /\ ReadingFrames({1}) /\ clast.op = "Read" /\ clast.n > Len(Plain)
  /\ clast.st = "IOError:Truncated compressed stream"
  /\ raw.data = Frames(cs.frames) /\ Len(Plain) = MaxPlain
  /\ ci.produced = Plain /\ cs.got = <<>> /\ Unread(ci) = <<>> /\ ~ci.overwrote

\* The places of an effect in the log of the last call.
LogAt(e) == {i \in 1..Len(clast.log) : clast.log[i] = e}

\* The last call closed a stream that was open: Close, or the destructor's
\* close.
ClosedOpen == co.made /\ clast.op = "Close" /\ clast.pre_open

\* C40: a Close on an open CompressedOutputStream first marks the stream
\* closed, then invokes the codec's End, again while End asks for a retry,
\* writes every byte End produced to the raw stream, and then invokes the raw
\* stream's Close exactly once; no byte is written to the raw stream after
\* its Close, and the raw stream's Close is invoked only if the finalization
\* succeeded.
C40_CloseOrder ==
  /\ ClosedOpen =>
       /\ ~co.is_open_
       /\ LogAt("mark") = {1}
       /\ Len(clast.log) >= 2 /\ clast.log[2] = "End"
       /\ Cardinality(LogAt("End")) = clast.ends
       /\ LogAt("close") \subseteq {Len(clast.log)}
       /\ clast.closes = Cardinality(LogAt("close")) /\ raw.closes = clast.closes
       /\ LogAt("close") # {} <=> clast.st \in {"OK", "IOError:close"}
       /\ LogAt("close") # {} =>
            /\ raw.closed
            /\ co.compressor_.st = "ended" /\ co.compressor_.q = <<>>
            /\ co.compressed_ = <<>>
            /\ raw.data = (IF clast.st = "OK" THEN Frames(cs.frames)
                           ELSE ProducedSoFar \o <<"T">>)
       /\ LogAt("close") = {} => ~raw.closed
  /\ (/\ co.made /\ raw.closed /\ clast.op # "Make"
      /\ clast.closes = 0 /\ clast.aborts = 0) => raw.data = clast.pre_raw

\* A Close on an open stream whose compressor had to be asked to end twice:
\* marked closed, End, a raw write, End again, a raw write, then the raw
\* stream's Close.
C40_Witness ==
  /\ ClosedOpen /\ clast.st = "OK"
  /\ clast.log = <<"mark", "End", "write", "End", "write", "close">>
  /\ raw.closed /\ raw.closes = 1

\* A Close on an open stream whose finalization failed on a raw write: the
\* raw stream's Close was not invoked.
C40_WitnessFailed ==
  /\ ClosedOpen /\ clast.st = "IOError:write"
  /\ clast.log = <<"mark", "End", "write">>
  /\ ~raw.closed /\ raw.closes = 0
====
